---------------------------- MODULE Spec2Model ----------------------------
(***************************************************************************)
(* SmartGallery: the client-side state / persistence layer.                *)
(*                                                                         *)
(* The model covers the AsyncStorage keys (favorites, deleted, hidden,     *)
(* passcode, theme), the UIStateProvider, the ImageGrid, the ImageViewer,  *)
(* the settings screen's passcode modal and the two HiddenScreen variants. *)
(*                                                                         *)
(* Every async handler is cut at its awaits.  A storage call takes effect  *)
(* when it is issued (AsyncStorage serves its requests in issue order);    *)
(* the code after the await is a later step that sees the call's result.   *)
(* A storage call may fail (reject); the number of failures in one run is  *)
(* bounded by MaxFaults.  A handler's closure values (React state captured *)
(* by the render in which the handler was created) are stored in the       *)
(* pending task.                                                           *)
(***************************************************************************)
EXTENDS Integers, Sequences, FiniteSets, TLC

(* ------------------------------ bounds -------------------------------- *)

\* Persistence calls that may reject in one run.
MaxFaults == 1

\* toggleFavorite calls per asset in one run of SpecToggle.
MaxToggles == 3

\* The longest deleted array markAsDeleted is followed to.
MaxDeleted == 3

\* The longest identifier list an array operation is applied to.
MaxIds == 3

(* ----------------------------- universe ------------------------------- *)

\* Asset identifiers, and the sequence MediaLibrary.getAssetsAsync returns.
Ids == {"p1", "p2"}
Assets == <<"p1", "p2">>

\* Passcodes a user may type (non-blank after trim).
Codes == {"1234", "0000"}

NoAsset == "none"

(* ------------------------- array helpers (JS) -------------------------- *)

\* Array.prototype.includes
Includes(s, x) == \E i \in 1..Len(s) : s[i] = x

\* arr.filter(id => id !== x)
Without(s, x) == SelectSeq(s, LAMBDA y : y # x)

\* the set of members of an array
Members(s) == {s[i] : i \in 1..Len(s)}

\* no identifier occurs twice in the array
NoDup(s) == \A i, j \in 1..Len(s) : s[i] = s[j] => i = j

\* The identifier lists a caller can pass, repeated identifiers included, and
\* the arrays without duplicates among them.
IdLists == UNION {[1..n -> Ids] : n \in 0..MaxIds}
NoDupLists == {s \in IdLists : NoDup(s)}

\* A faulty variant of PushMissing: every identifier is pushed.
PushMissingAll(acc, ids) == acc \o ids

RECURSIVE PushMissing(_, _)
\* ids.forEach(id => { if (!acc.includes(id)) acc.push(id) })
PushMissing(acc, ids) ==
  IF ids = <<>> THEN acc
  ELSE PushMissing(IF Includes(acc, Head(ids)) THEN acc ELSE Append(acc, Head(ids)),
                   Tail(ids))

RECURSIVE RemoveEach(_, _)
\* ids.forEach(id => { if (acc.includes(id)) acc = acc.filter(f => f !== id) })
RemoveEach(acc, ids) ==
  IF ids = <<>> THEN acc
  ELSE RemoveEach(IF Includes(acc, Head(ids)) THEN Without(acc, Head(ids)) ELSE acc,
                  Tail(ids))

\* A faulty variant of AnyIncluded: the favoritesChanged flag never rises.
AnyIncludedNever(acc, ids) == FALSE

\* selectedItems.some(id => favorites.includes(id)): the favoritesChanged flag
AnyIncluded(acc, ids) == \E i \in 1..Len(ids) : Includes(acc, ids[i])


(* ------------------------------ state ---------------------------------- *)

VARIABLES
  \* AsyncStorage: one variable per key.  has = FALSE is an absent key.
  stFav,            \* smartgallery_favorites        [has, val]
  stDel,            \* smartgallery_deleted          [has, val]
  stHid,            \* smartgallery_hidden_images    [has, val]
  stPass,           \* smartgallery_hidden_passcode  [has, code]
  stTheme,          \* smartgallery_theme_preference [has, code]
  \* UIStateProvider
  hiddenImages, hasPasscode, theme, isTabBarVisible,
  \* ImageGrid of the home screen
  category, hasPermission, favorites, deletedItems, selectedItems,
  isSelectionMode, photos, isLoading, showPasscodePrompt,
  loads,            \* loadImages calls awaiting MediaLibrary, with their closures
  \* ImageViewer of the home screen
  vAsset, vVisible, isFavorite,
  \* settings screen: the passcode modal
  showPasscodeModal, isSettingPasscode,
  \* HiddenScreen: which of its two versions is mounted ("none" before the
  \* first visit), and its isUnlocked state
  hsMounted, isUnlocked,
  \* the screen in front: "home", "settings" or "hidden"
  screen,
  \* suspended async handlers, failures injected so far
  tasks, faults,
  \* how many user-started handlers the run lets overlap (1: calls are sequential)
  inFlight,
  \* observations of the run: what the last finished operation was and how it
  \* ended; per asset, the number of toggleFavorite calls that ran to the end
  \* of their try block (SpecToggle)
  lastOp, toggles

stores == <<stFav, stDel, stHid, stPass, stTheme>>
provider == <<hiddenImages, hasPasscode, theme, isTabBarVisible>>
grid == <<category, hasPermission, favorites, deletedItems, selectedItems,
          isSelectionMode, photos, isLoading, showPasscodePrompt, loads>>
viewer == <<vAsset, vVisible, isFavorite>>
settings == <<showPasscodeModal, isSettingPasscode>>
hidden == <<hsMounted, isUnlocked>>
vars == <<stores, provider, grid, viewer, settings, hidden, screen, tasks, faults,
          inFlight, lastOp, toggles>>

(* ----------------------------- storage --------------------------------- *)

\* getItem of an absent key resolves to null.
NoArray == [has |-> FALSE, val |-> <<>>]
NoString == [has |-> FALSE, code |-> ""]

\* JSON.stringify of a string array, as stored under a key.
StoredArray(arr) == [has |-> TRUE, val |-> arr]
StoredString(str) == [has |-> TRUE, code |-> str]

\* storedX ? JSON.parse(storedX) : []
ParseOrEmpty(item) == IF item.has THEN item.val ELSE <<>>

\* A storage call resolves, or rejects while failures are left to inject.
Outcomes == IF faults < MaxFaults THEN {TRUE, FALSE} ELSE {TRUE}
Charge(ok) == faults' = IF ok THEN faults ELSE faults + 1

(* ------------------------------ tasks ---------------------------------- *)

\* A suspended handler: where it waits (op, at), the result of the storage call
\* it awaits (ok, has, val, code), and the values its closure captured.
BaseTask ==
  [tid |-> 0, op |-> "", at |-> "", ok |-> TRUE, has |-> FALSE, val |-> <<>>,
   code |-> "", a |-> NoAsset, sel |-> <<>>, fav |-> <<>>, del |-> <<>>,
   hid |-> <<>>, cat |-> "", flag |-> FALSE, live |-> TRUE]

\* User-started handlers carry a tid in 1..inFlight; effects carry tid 0.
UserTasks == {t \in tasks : t.tid # 0}
CanStart == Cardinality(UserTasks) < inFlight
NewTid == CHOOSE i \in 1..inFlight : \A t \in tasks : t.tid # i

\* A faulty variant of WithRead: the read finds nothing under the key.
WithReadNothing(t, ok, item) == [t EXCEPT !.ok = ok, !.has = FALSE, !.val = <<>>]

\* The result of an awaited getItem, as the task will see it.
WithRead(t, ok, item) ==
  [t EXCEPT !.ok = ok, !.has = ok /\ item.has,
            !.val = IF ok /\ item.has THEN item.val ELSE <<>>]

Replace(t, u) == tasks' = (tasks \ {t}) \cup {u}

\* A faulty variant of Finish: a handler whose call rejected has no catch to end in.
FinishUnlessRejected(t) == t.ok /\ tasks' = tasks \ {t}

\* The handler returns: its try block has run to the end, or its catch has.
Finish(t) == tasks' = tasks \ {t}

(* ------------------------- finished operations ------------------------ *)

\* lastOp describes the operation the last step finished, if it finished one
\* (Idle after every other step): its name, whether it ran to the end of its try block (ok) or ended
\* in its catch, and its argument (an asset identifier or a passcode).
\* count is the number a success toast reports (0 when it reports none).
Idle == [op |-> "none", ok |-> TRUE, arg |-> "", count |-> 0]
Done(name, ok, arg) == [op |-> name, ok |-> ok, arg |-> arg, count |-> 0]

(* --------------------- UIStateProvider: load effect -------------------- *)

\* !!passcode
Truthy(item) == item.has /\ item.code # ""

\* The effect issues its first read when the provider mounts.
ProviderLoadTask(ok) ==
  WithRead([BaseTask EXCEPT !.op = "providerLoad", !.at = "hidden"], ok, stHid)

\* after `await AsyncStorage.getItem(HIDDEN_IMAGES_KEY)`
ProviderLoadHidden(t) ==
  /\ t.op = "providerLoad" /\ t.at = "hidden"
  /\ IF ~t.ok
       THEN /\ Finish(t)
            /\ UNCHANGED <<provider, faults>>
       ELSE /\ hiddenImages' = IF t.has THEN t.val ELSE hiddenImages
            /\ \E ok \in Outcomes :
                 /\ Charge(ok)
                 /\ Replace(t, [t EXCEPT !.at = "passcode", !.ok = ok,
                                         !.has = ok /\ stPass.has,
                                         !.code = IF ok THEN stPass.code ELSE ""])
            /\ UNCHANGED <<hasPasscode, theme, isTabBarVisible>>
  /\ UNCHANGED <<stores, grid, viewer, settings, hidden>>
  /\ lastOp' = Idle

\* after `await AsyncStorage.getItem(HIDDEN_PASSCODE_KEY)`
ProviderLoadPasscode(t) ==
  /\ t.op = "providerLoad" /\ t.at = "passcode"
  /\ IF ~t.ok
       THEN /\ Finish(t)
            /\ UNCHANGED <<provider, faults>>
       ELSE /\ hasPasscode' = Truthy(t)
            /\ \E ok \in Outcomes :
                 /\ Charge(ok)
                 /\ Replace(t, [t EXCEPT !.at = "theme", !.ok = ok,
                                         !.has = ok /\ stTheme.has,
                                         !.code = IF ok THEN stTheme.code ELSE ""])
            /\ UNCHANGED <<hiddenImages, theme, isTabBarVisible>>
  /\ UNCHANGED <<stores, grid, viewer, settings, hidden>>
  /\ lastOp' = Idle

\* after `await AsyncStorage.getItem(THEME_PREFERENCE_KEY)`
ProviderLoadTheme(t) ==
  /\ t.op = "providerLoad" /\ t.at = "theme"
  /\ theme' = IF t.ok /\ t.has /\ t.code \in {"light", "dark"} THEN t.code ELSE theme
  /\ Finish(t)
  /\ UNCHANGED <<hiddenImages, hasPasscode, isTabBarVisible, faults>>
  /\ UNCHANGED <<stores, grid, viewer, settings, hidden>>
  /\ lastOp' = Idle

(* ------------------- theme: RootLayoutNav, toggleTheme ----------------- *)

\* ColorScheme = 'light' | 'dark'
ColorSchemes == {"light", "dark"}

\* What useNativeColorScheme() returns: a scheme, or null when the device
\* gives none.
NativeColorSchemes == {"light", "dark", "null"}

\* nativeColorScheme === null ? 'dark' : nativeColorScheme, handed to the
\* provider as initialTheme
InitialColorScheme(native) == IF native = "null" THEN "dark" ELSE native

\* savedTheme === 'light' || savedTheme === 'dark'
IsSavedTheme(has, code) == has /\ code \in ColorSchemes

\* RootLayoutNav's effect issues its read of the theme key at the first render.
RootThemeTask(ok) ==
  [BaseTask EXCEPT !.op = "rootTheme", !.at = "read", !.ok = ok,
                   !.has = ok /\ stTheme.has,
                   !.code = IF ok THEN stTheme.code ELSE ""]

\* after the read: with no saved preference, `setItem(THEME_PREFERENCE_KEY, 'dark')`
RootThemeRead(t) ==
  /\ t.op = "rootTheme" /\ t.at = "read"
  /\ IF t.ok /\ ~IsSavedTheme(t.has, t.code)
       THEN \E ok \in Outcomes :
              /\ Charge(ok)
              /\ stTheme' = IF ok THEN StoredString("dark") ELSE stTheme
              /\ Replace(t, [t EXCEPT !.at = "written", !.ok = ok])
       ELSE /\ Finish(t)
            /\ UNCHANGED <<stTheme, faults>>
  /\ lastOp' = Idle
  /\ UNCHANGED <<stFav, stDel, stHid, stPass>>
  /\ UNCHANGED <<provider, grid, viewer, settings, hidden>>

\* after the write, or its catch: the effect ends
RootThemeWritten(t) ==
  /\ t.op = "rootTheme" /\ t.at = "written"
  /\ Finish(t)
  /\ lastOp' = Idle
  /\ UNCHANGED <<stores, provider, grid, viewer, settings, hidden, faults>>

\* A faulty variant of FlippedTheme: the new theme is always dark.
FlippedThemeDark(th) == "dark"

\* theme === 'dark' ? 'light' : 'dark'
FlippedTheme(th) == IF th = "dark" THEN "light" ELSE "dark"

\* toggleTheme up to `await AsyncStorage.setItem(THEME_PREFERENCE_KEY, newTheme)`;
\* the task keeps the theme of the render the call was made from
ToggleTheme ==
  /\ CanStart
  /\ LET newTheme == FlippedTheme(theme) IN
     /\ theme' = newTheme
     /\ \E ok \in Outcomes :
          /\ Charge(ok)
          /\ stTheme' = IF ok THEN StoredString(newTheme) ELSE stTheme
          /\ tasks' = tasks \cup
               {[BaseTask EXCEPT !.tid = NewTid, !.op = "toggleTheme", !.at = "written",
                                 !.ok = ok, !.code = theme]}
  /\ lastOp' = Idle
  /\ UNCHANGED <<stFav, stDel, stHid, stPass>>
  /\ UNCHANGED <<hiddenImages, hasPasscode, isTabBarVisible>>
  /\ UNCHANGED <<grid, viewer, settings, hidden>>

\* the promise of toggleTheme resolves, after the write or after the catch, and
\* handleThemeToggle returns
ToggleThemeDone(t) ==
  /\ t.op = "toggleTheme" /\ t.at = "written"
  /\ Finish(t)
  /\ lastOp' = Done("toggleTheme", t.ok, t.code)
  /\ UNCHANGED <<stores, provider, grid, viewer, settings, hidden, faults>>

\* handleThemeToggle: the switch of the settings screen
HandleThemeToggle == screen = "settings" /\ ToggleTheme

(* ------------------------ ImageGrid: loadImages ------------------------ *)

\* A faulty variant of FilterAssets: the category all leaves out the deleted
\* assets only.
FilterAssetsKeepHidden(cat, assets, fav, del, hid) ==
  IF cat = "favorites" THEN SelectSeq(assets, LAMBDA x : Includes(fav, x))
  ELSE IF cat = "deleted" THEN SelectSeq(assets, LAMBDA x : Includes(del, x))
  ELSE IF cat = "hidden" THEN SelectSeq(assets, LAMBDA x : Includes(hid, x))
  ELSE IF cat = "all" THEN SelectSeq(assets, LAMBDA x : ~Includes(del, x))
  ELSE assets

\* The category filter of loadImages over the assets MediaLibrary returned.
FilterAssets(cat, assets, fav, del, hid) ==
  IF cat = "favorites" THEN SelectSeq(assets, LAMBDA x : Includes(fav, x))
  ELSE IF cat = "deleted" THEN SelectSeq(assets, LAMBDA x : Includes(del, x))
  ELSE IF cat = "hidden" THEN SelectSeq(assets, LAMBDA x : Includes(hid, x))
  ELSE IF cat = "all"
    THEN SelectSeq(assets, LAMBDA x : ~Includes(del, x) /\ ~Includes(hid, x))
  ELSE assets

\* A loadImages call suspended at getAssetsAsync.  The library's content is
\* fixed, so the closure the call filters with (category, favorites, deleted
\* items, hidden images of the render that made it) already determines the
\* list it will hand to setPhotos.
Load(cat, fav, del, hid) == FilterAssets(cat, Assets, fav, del, hid)

\* getAssetsAsync resolved: filter, setPhotos, and the finally block.
LoadImagesDone(l) ==
  /\ l \in loads
  /\ photos' = l
  /\ isLoading' = FALSE
  /\ loads' = loads \ {l}
  /\ UNCHANGED <<category, hasPermission, favorites, deletedItems, selectedItems,
                 isSelectionMode, showPasscodePrompt>>
  /\ UNCHANGED <<stores, provider, viewer, settings, hidden, tasks, faults>>
  /\ lastOp' = Idle

(* --------------------- ImageGrid: mount and effects -------------------- *)

\* The mount effect waits for MediaLibrary.requestPermissionsAsync; its closure
\* is the first render's (empty favorites and deleted items).
GridMountTask ==
  [BaseTask EXCEPT !.op = "gridMount", !.at = "permission",
                   !.cat = category, !.hid = hiddenImages]

\* permission granted: setHasPermission(true) re-renders and the reload effect
\* runs; loadStoredData issues its first read
GridMountPermission(t) ==
  /\ t.op = "gridMount" /\ t.at = "permission"
  /\ hasPermission' = TRUE
  /\ isLoading' = TRUE
  /\ loads' = loads \cup {Load(category, favorites, deletedItems, hiddenImages)}
  /\ \E ok \in Outcomes :
       /\ Charge(ok)
       /\ Replace(t, WithRead([t EXCEPT !.at = "favorites"], ok, stFav))
  /\ UNCHANGED <<category, favorites, deletedItems, selectedItems,
                 isSelectionMode, photos, showPasscodePrompt>>
  /\ UNCHANGED <<stores, provider, viewer, settings, hidden>>
  /\ lastOp' = Idle

\* loadStoredData after the favorites read; a rejected read ends loadStoredData
\* in its catch and the mount effect goes on to loadImages()
GridMountFavorites(t) ==
  /\ t.op = "gridMount" /\ t.at = "favorites"
  /\ isLoading' = TRUE
  /\ IF ~t.ok
       THEN /\ loads' = loads \cup {Load(t.cat, <<>>, <<>>, t.hid)}
            /\ Finish(t)
            /\ UNCHANGED <<favorites, faults>>
       ELSE /\ favorites' = IF t.has THEN t.val ELSE favorites
            /\ loads' = loads \cup
                 (IF t.has THEN {Load(category, t.val, deletedItems, hiddenImages)}
                           ELSE {})
            /\ \E ok \in Outcomes :
                 /\ Charge(ok)
                 /\ Replace(t, WithRead([t EXCEPT !.at = "deleted"], ok, stDel))
  /\ UNCHANGED <<category, hasPermission, deletedItems, selectedItems,
                 isSelectionMode, photos, showPasscodePrompt>>
  /\ UNCHANGED <<stores, provider, viewer, settings, hidden>>
  /\ lastOp' = Idle

\* loadStoredData after the deleted read, then the mount effect's loadImages()
GridMountDeleted(t) ==
  /\ t.op = "gridMount" /\ t.at = "deleted"
  /\ isLoading' = TRUE
  /\ deletedItems' = IF t.ok /\ t.has THEN t.val ELSE deletedItems
  /\ loads' = loads \cup {Load(t.cat, <<>>, <<>>, t.hid)} \cup
       (IF t.ok /\ t.has THEN {Load(category, favorites, t.val, hiddenImages)}
                         ELSE {})
  /\ Finish(t)
  /\ UNCHANGED <<category, hasPermission, favorites, selectedItems,
                 isSelectionMode, photos, showPasscodePrompt, faults>>
  /\ UNCHANGED <<stores, provider, viewer, settings, hidden>>
  /\ lastOp' = Idle

(* ------------------------ ImageGrid: selection ------------------------- *)

\* The user acts once the startup effects (the provider's load, the grid's
\* mount) have finished and no loadImages call is pending.
Settled ==
  /\ loads = {}
  /\ \A t \in tasks : t.op \notin {"providerLoad", "gridMount"}

\* The list and the action bar are rendered once permission is granted and no
\* loadImages call holds isLoading; the viewer Modal covers the screen.  The
\* user comes back to the grid once the viewer's effect has finished too.
GridUsable ==
  /\ screen = "home"
  /\ hasPermission /\ ~isLoading /\ ~vVisible /\ Settled
  /\ \A t \in tasks : t.tid # 0

\* The grid's effect on [isSelectionMode]: setTabBarVisible(!isSelectionMode).
\* It runs after the render that follows the change, before the next input.
TabBarEffectShown(selectionMode) == TRUE

TabBarEffect(selectionMode) == ~selectionMode

\* handleLongPress
HandleLongPress(a) ==
  /\ GridUsable /\ ~showPasscodePrompt /\ Includes(photos, a)
  /\ isSelectionMode' = TRUE
  /\ selectedItems' = <<a>>
  /\ isTabBarVisible' = TabBarEffect(TRUE)
  /\ UNCHANGED <<category, hasPermission, favorites, deletedItems, photos,
                 isLoading, showPasscodePrompt, loads>>
  /\ UNCHANGED <<hiddenImages, hasPasscode, theme>>
  /\ UNCHANGED <<stores, viewer, settings, hidden, tasks, faults>>
  /\ lastOp' = Idle

\* toggleSelection's new selection
ToggleSelection(sel, a) ==
  IF Includes(sel, a) THEN Without(sel, a) ELSE Append(sel, a)

\* handleImagePress in selection mode: toggleSelection
HandleImagePressSelect(a) ==
  /\ GridUsable /\ ~showPasscodePrompt /\ Includes(photos, a) /\ isSelectionMode
  /\ selectedItems' = ToggleSelection(selectedItems, a)
  /\ isSelectionMode' = (ToggleSelection(selectedItems, a) # <<>>)
  /\ isTabBarVisible' = TabBarEffect(ToggleSelection(selectedItems, a) # <<>>)
  /\ UNCHANGED <<category, hasPermission, favorites, deletedItems, photos,
                 isLoading, showPasscodePrompt, loads>>
  /\ UNCHANGED <<hiddenImages, hasPasscode, theme>>
  /\ UNCHANGED <<stores, viewer, settings, hidden, tasks, faults>>
  /\ lastOp' = Idle

\* cancelSelection
CancelSelection ==
  /\ GridUsable /\ ~showPasscodePrompt /\ isSelectionMode
  /\ isSelectionMode' = FALSE
  /\ selectedItems' = <<>>
  /\ isTabBarVisible' = TRUE
  /\ UNCHANGED <<category, hasPermission, favorites, deletedItems, photos,
                 isLoading, showPasscodePrompt, loads>>
  /\ UNCHANGED <<hiddenImages, hasPasscode, theme>>
  /\ UNCHANGED <<stores, viewer, settings, hidden, tasks, faults>>
  /\ lastOp' = Idle

\* The categories of CategoryTabs that filter by the sets.
HomeCategories == {"all", "favorites", "deleted"}

\* handleCategoryChange: the category prop changes; the grid leaves selection
\* mode and, with permission, reloads
HandleCategoryChange(c) ==
  /\ c \in HomeCategories /\ c # category
  /\ GridUsable
  /\ category' = c
  /\ isSelectionMode' = FALSE
  /\ selectedItems' = <<>>
  /\ isTabBarVisible' = TRUE
  /\ isLoading' = TRUE
  /\ loads' = loads \cup {Load(c, favorites, deletedItems, hiddenImages)}
  /\ UNCHANGED <<hasPermission, favorites, deletedItems, photos, showPasscodePrompt>>
  /\ UNCHANGED <<hiddenImages, hasPasscode, theme>>
  /\ UNCHANGED <<stores, viewer, settings, hidden, tasks, faults>>
  /\ lastOp' = Idle

\* A handler started from the grid's current render: the closure it captures.
GridClosure(name, at) ==
  [BaseTask EXCEPT !.tid = NewTid, !.op = name, !.at = at, !.sel = selectedItems,
                   !.fav = favorites, !.del = deletedItems, !.hid = hiddenImages,
                   !.cat = category]

\* The tail shared by the multi-select handlers: leave selection mode.
ExitSelection(t) ==
  IF t.live
    THEN /\ isSelectionMode' = FALSE
         /\ selectedItems' = <<>>
         /\ isTabBarVisible' = TRUE
    ELSE UNCHANGED <<isSelectionMode, selectedItems, isTabBarVisible>>

\* loadImages() called from a handler: it filters with the handler's closure.
ClosureLoad(t, wanted) ==
  IF t.live /\ wanted
    THEN /\ isLoading' = TRUE
         /\ loads' = loads \cup {Load(t.cat, t.fav, t.del, t.hid)}
    ELSE UNCHANGED <<isLoading, loads>>

(* ------------------------ ImageGrid: toggleFavorite --------------------- *)

\* A faulty variant of ToggledFavorites: the array is left as it was.
ToggledFavoritesKept(favs, a) == favs

\* A faulty variant of ToggledFavorites: the asset is appended, never removed.
ToggledFavoritesAppend(favs, a) == Append(favs, a)

\* the favorites array toggleFavorite writes (the grid's and the viewer's
\* handler build it alike: filter the asset out, or append it)
ToggledFavorites(favs, a) ==
  IF Includes(favs, a) THEN Without(favs, a) ELSE Append(favs, a)

\* the grid's toggleFavorite(assetId) up to `await AsyncStorage.setItem(...)`;
\* no control of the grid calls it, the model calls it as the component's
\* operation
GridToggleFavorite(a) ==
  /\ GridUsable /\ ~isSelectionMode /\ ~showPasscodePrompt /\ CanStart
  /\ LET newFavorites == ToggledFavorites(favorites, a) IN
     /\ favorites' = newFavorites
     /\ isLoading' = TRUE
     /\ loads' = loads \cup {Load(category, newFavorites, deletedItems, hiddenImages)}
     /\ \E ok \in Outcomes :
          /\ Charge(ok)
          /\ stFav' = IF ok THEN StoredArray(newFavorites) ELSE stFav
          /\ tasks' = tasks \cup
               {[GridClosure("gridToggleFavorite", "written") EXCEPT !.ok = ok, !.a = a]}
  /\ lastOp' = Idle
  /\ UNCHANGED <<category, hasPermission, deletedItems, selectedItems,
                 isSelectionMode, photos, showPasscodePrompt>>
  /\ UNCHANGED <<stDel, stHid, stPass, stTheme>>
  /\ UNCHANGED <<provider, viewer, settings, hidden>>

\* after the write: reload in the favorites category
GridToggleFavoriteDone(t) ==
  /\ t.op = "gridToggleFavorite" /\ t.at = "written"
  /\ ClosureLoad(t, t.ok /\ t.cat = "favorites")
  /\ Finish(t)
  /\ lastOp' = Done("toggleFavorite", t.ok, t.a)
  /\ UNCHANGED <<category, hasPermission, favorites, deletedItems, selectedItems,
                 isSelectionMode, photos, showPasscodePrompt>>
  /\ UNCHANGED <<stores, provider, viewer, settings, hidden, faults>>

(* ------------- ImageGrid: markAsDeleted, restoreFromDeleted ------------ *)

\* [...deletedItems, assetId]
MarkedDeleted(del, a) == Append(del, a)

\* A faulty variant of RestoredDeleted: the array is written back as it was.
RestoredDeletedKept(del, a) == del

\* deletedItems.filter(id => id !== assetId)
RestoredDeleted(del, a) == Without(del, a)

\* markAsDeleted up to `await AsyncStorage.setItem(DELETED_STORAGE_KEY, ...)`
MarkAsDeleted(a) ==
  /\ GridUsable /\ ~isSelectionMode /\ ~showPasscodePrompt /\ CanStart
  /\ LET newDeletedItems == MarkedDeleted(deletedItems, a) IN
     /\ deletedItems' = newDeletedItems
     /\ isLoading' = TRUE
     /\ loads' = loads \cup {Load(category, favorites, newDeletedItems, hiddenImages)}
     /\ \E ok \in Outcomes :
          /\ Charge(ok)
          /\ stDel' = IF ok THEN StoredArray(newDeletedItems) ELSE stDel
          /\ tasks' = tasks \cup
               {[GridClosure("markAsDeleted", "written") EXCEPT !.ok = ok, !.a = a]}
  /\ lastOp' = Idle
  /\ UNCHANGED <<category, hasPermission, favorites, selectedItems,
                 isSelectionMode, photos, showPasscodePrompt>>
  /\ UNCHANGED <<stFav, stHid, stPass, stTheme>>
  /\ UNCHANGED <<provider, viewer, settings, hidden>>

\* after the write: loadImages(), or the catch
MarkAsDeletedDone(t) ==
  /\ t.op = "markAsDeleted" /\ t.at = "written"
  /\ ClosureLoad(t, t.ok)
  /\ Finish(t)
  /\ lastOp' = Done("markAsDeleted", t.ok, t.a)
  /\ UNCHANGED <<category, hasPermission, favorites, deletedItems, selectedItems,
                 isSelectionMode, photos, showPasscodePrompt>>
  /\ UNCHANGED <<stores, provider, viewer, settings, hidden, faults>>

\* restoreFromDeleted up to `await AsyncStorage.setItem(DELETED_STORAGE_KEY, ...)`
RestoreFromDeleted(a) ==
  /\ GridUsable /\ ~isSelectionMode /\ ~showPasscodePrompt /\ CanStart
  /\ LET newDeletedItems == RestoredDeleted(deletedItems, a) IN
     /\ deletedItems' = newDeletedItems
     /\ isLoading' = TRUE
     /\ loads' = loads \cup {Load(category, favorites, newDeletedItems, hiddenImages)}
     /\ \E ok \in Outcomes :
          /\ Charge(ok)
          /\ stDel' = IF ok THEN StoredArray(newDeletedItems) ELSE stDel
          /\ tasks' = tasks \cup
               {[GridClosure("restoreFromDeleted", "written") EXCEPT !.ok = ok, !.a = a]}
  /\ lastOp' = Idle
  /\ UNCHANGED <<category, hasPermission, favorites, selectedItems,
                 isSelectionMode, photos, showPasscodePrompt>>
  /\ UNCHANGED <<stFav, stHid, stPass, stTheme>>
  /\ UNCHANGED <<provider, viewer, settings, hidden>>

\* after the write: reload in the deleted category, or the catch
RestoreFromDeletedDone(t) ==
  /\ t.op = "restoreFromDeleted" /\ t.at = "written"
  /\ ClosureLoad(t, t.ok /\ t.cat = "deleted")
  /\ Finish(t)
  /\ lastOp' = Done("restoreFromDeleted", t.ok, t.a)
  /\ UNCHANGED <<category, hasPermission, favorites, deletedItems, selectedItems,
                 isSelectionMode, photos, showPasscodePrompt>>
  /\ UNCHANGED <<stores, provider, viewer, settings, hidden, faults>>

(* ------------------- ImageGrid: addMultipleToFavorites ------------------ *)

\* const selectedCount = selectedItems.length: the number the toast reports
SelectedCount(sel) == Len(sel)

\* up to `await AsyncStorage.setItem(FAVORITES_STORAGE_KEY, ...)`
AddMultipleToFavorites ==
  /\ GridUsable /\ isSelectionMode /\ ~showPasscodePrompt /\ CanStart
  /\ LET newFavorites == PushMissing(favorites, selectedItems) IN
     /\ favorites' = newFavorites
     /\ isLoading' = TRUE
     /\ loads' = loads \cup {Load(category, newFavorites, deletedItems, hiddenImages)}
     /\ \E ok \in Outcomes :
          /\ Charge(ok)
          /\ stFav' = IF ok THEN StoredArray(newFavorites) ELSE stFav
          /\ tasks' = tasks \cup
               {[GridClosure("addMultipleToFavorites", "written") EXCEPT !.ok = ok]}
  /\ lastOp' = Idle
  /\ UNCHANGED <<category, hasPermission, deletedItems, selectedItems,
                 isSelectionMode, photos, showPasscodePrompt>>
  /\ UNCHANGED <<stDel, stHid, stPass, stTheme>>
  /\ UNCHANGED <<provider, viewer, settings, hidden>>

\* after the write: exit selection mode, toast, reload in the favorites category
AddMultipleToFavoritesDone(t) ==
  /\ t.op = "addMultipleToFavorites" /\ t.at = "written"
  /\ IF t.ok
       THEN /\ ExitSelection(t)
            /\ ClosureLoad(t, t.cat = "favorites")
       ELSE UNCHANGED <<isSelectionMode, selectedItems, isTabBarVisible,
                        isLoading, loads>>
  /\ Finish(t)
  /\ lastOp' = [Done("addMultipleToFavorites", t.ok, "")
                  EXCEPT !.count = IF t.ok THEN SelectedCount(t.sel) ELSE 0]
  /\ UNCHANGED <<category, hasPermission, favorites, deletedItems, photos,
                 showPasscodePrompt>>
  /\ UNCHANGED <<hiddenImages, hasPasscode, theme>>
  /\ UNCHANGED <<stores, viewer, settings, hidden, faults>>

(* -------------------- ImageGrid: moveMultipleToDeleted ------------------ *)

\* up to `await AsyncStorage.setItem(DELETED_STORAGE_KEY, ...)`
MoveMultipleToDeleted ==
  /\ GridUsable /\ isSelectionMode /\ ~showPasscodePrompt /\ CanStart
  /\ LET newDeletedItems == PushMissing(deletedItems, selectedItems) IN
     /\ deletedItems' = newDeletedItems
     /\ isLoading' = TRUE
     /\ loads' = loads \cup {Load(category, favorites, newDeletedItems, hiddenImages)}
     /\ \E ok \in Outcomes :
          /\ Charge(ok)
          /\ stDel' = IF ok THEN StoredArray(newDeletedItems) ELSE stDel
          /\ tasks' = tasks \cup
               {[GridClosure("moveMultipleToDeleted", "deletedWritten") EXCEPT !.ok = ok]}
  /\ lastOp' = Idle
  /\ UNCHANGED <<category, hasPermission, favorites, selectedItems,
                 isSelectionMode, photos, showPasscodePrompt>>
  /\ UNCHANGED <<stFav, stHid, stPass, stTheme>>
  /\ UNCHANGED <<provider, viewer, settings, hidden>>

\* the end of the try block: exit selection mode, toast, loadImages()
MoveMultipleFinish(t) ==
  /\ ExitSelection(t)
  /\ ClosureLoad(t, TRUE)
  /\ Finish(t)
  /\ lastOp' = Done("moveMultipleToDeleted", TRUE, "")

\* after the deleted write: "Remove from favorites if needed", with the
\* favorites of the handler's closure
MoveMultipleToDeletedFavorites(t) ==
  /\ t.op = "moveMultipleToDeleted" /\ t.at = "deletedWritten"
  /\ IF ~t.ok
       THEN /\ Finish(t)
            /\ lastOp' = Done("moveMultipleToDeleted", FALSE, "")
            /\ UNCHANGED <<favorites, stFav, isSelectionMode, selectedItems,
                           isTabBarVisible, isLoading, loads, faults>>
       ELSE IF AnyIncluded(t.fav, t.sel)
         THEN LET newFavorites == RemoveEach(t.fav, t.sel) IN
              /\ IF t.live
                   THEN /\ favorites' = newFavorites
                        /\ isLoading' = TRUE
                        /\ loads' = loads \cup
                             {Load(category, newFavorites, deletedItems, hiddenImages)}
                   ELSE UNCHANGED <<favorites, isLoading, loads>>
              /\ \E ok \in Outcomes :
                   /\ Charge(ok)
                   /\ stFav' = IF ok THEN StoredArray(newFavorites) ELSE stFav
                   /\ Replace(t, [t EXCEPT !.at = "favoritesWritten", !.ok = ok])
              /\ UNCHANGED <<isSelectionMode, selectedItems, isTabBarVisible>>
              /\ lastOp' = Idle
         ELSE /\ MoveMultipleFinish(t)
              /\ UNCHANGED <<favorites, stFav, faults>>
  /\ UNCHANGED <<category, hasPermission, deletedItems, photos, showPasscodePrompt>>
  /\ UNCHANGED <<stDel, stHid, stPass, stTheme>>
  /\ UNCHANGED <<hiddenImages, hasPasscode, theme>>
  /\ UNCHANGED <<viewer, settings, hidden>>

\* after the favorites write
MoveMultipleToDeletedDone(t) ==
  /\ t.op = "moveMultipleToDeleted" /\ t.at = "favoritesWritten"
  /\ IF t.ok
       THEN MoveMultipleFinish(t)
       ELSE /\ Finish(t)
            /\ lastOp' = Done("moveMultipleToDeleted", FALSE, "")
            /\ UNCHANGED <<isSelectionMode, selectedItems, isTabBarVisible,
                           isLoading, loads>>
  /\ UNCHANGED <<category, hasPermission, favorites, deletedItems, photos,
                 showPasscodePrompt>>
  /\ UNCHANGED <<hiddenImages, hasPasscode, theme>>
  /\ UNCHANGED <<stores, viewer, settings, hidden, faults>>

(* ----------------------- UIStateProvider: hidden ----------------------- *)

\* addToHidden's new array, from the hiddenImages of the provider render the
\* caller took the function from
AddToHiddenArray(hid, imageIds) ==
  hid \o SelectSeq(imageIds, LAMBDA x : ~Includes(hid, x))

\* A faulty variant of VerifyPasscode: a rejected read counts as a match.
VerifyPasscodeThrough(ok, item, passcode) == ~ok \/ (item.has /\ item.code = passcode)

\* verifyPasscode: the stored value compared with ===; a rejected read is false
VerifyPasscode(ok, item, passcode) == ok /\ item.has /\ item.code = passcode

(* ------------- UIStateProvider: addToHidden, removeFromHidden ---------- *)

\* hiddenImages.filter(id => id !== imageId)
RemovedFromHidden(hid, imageId) == Without(hid, imageId)

\* A consumer of the context calls one of its functions: the closure of the
\* provider's current render.
ProviderClosure(name, ids, a) ==
  [BaseTask EXCEPT !.tid = NewTid, !.op = name, !.at = "written", !.sel = ids,
                   !.a = a, !.hid = hiddenImages]

\* addToHidden(imageIds) up to `await AsyncStorage.setItem(HIDDEN_IMAGES_KEY, ...)`
AddToHidden(imageIds) ==
  /\ Settled /\ CanStart
  /\ LET newHiddenImages == AddToHiddenArray(hiddenImages, imageIds) IN
     /\ hiddenImages' = newHiddenImages
     /\ \E ok \in Outcomes :
          /\ Charge(ok)
          /\ stHid' = IF ok THEN StoredArray(newHiddenImages) ELSE stHid
          /\ tasks' = tasks \cup
               {[ProviderClosure("addToHidden", imageIds, NoAsset) EXCEPT !.ok = ok]}
  /\ lastOp' = Idle
  /\ UNCHANGED <<stFav, stDel, stPass, stTheme>>
  /\ UNCHANGED <<hasPasscode, theme, isTabBarVisible>>
  /\ UNCHANGED <<grid, viewer, settings, hidden>>

\* removeFromHidden(imageId) up to its `await AsyncStorage.setItem(...)`
RemoveFromHidden(imageId) ==
  /\ Settled /\ CanStart
  /\ LET newHiddenImages == RemovedFromHidden(hiddenImages, imageId) IN
     /\ hiddenImages' = newHiddenImages
     /\ \E ok \in Outcomes :
          /\ Charge(ok)
          /\ stHid' = IF ok THEN StoredArray(newHiddenImages) ELSE stHid
          /\ tasks' = tasks \cup
               {[ProviderClosure("removeFromHidden", <<>>, imageId) EXCEPT !.ok = ok]}
  /\ lastOp' = Idle
  /\ UNCHANGED <<stFav, stDel, stPass, stTheme>>
  /\ UNCHANGED <<hasPasscode, theme, isTabBarVisible>>
  /\ UNCHANGED <<grid, viewer, settings, hidden>>

\* the promise of addToHidden or removeFromHidden resolves, after the write or
\* after the catch that logs the error
HiddenWriteDone(t) ==
  /\ t.op \in {"addToHidden", "removeFromHidden"} /\ t.at = "written"
  /\ Finish(t)
  /\ lastOp' = Done(t.op, t.ok, t.a)
  /\ UNCHANGED <<stores, provider, grid, viewer, settings, hidden, faults>>

(* ----------------------- ImageGrid: add to hidden ---------------------- *)

\* addToHiddenImages up to the write inside `await addToHidden(selectedItems)`,
\* run with the closure c of the render the caller belongs to
StartAddToHiddenImages(c) ==
  LET newHiddenImages == AddToHiddenArray(c.hid, c.sel) IN
  /\ hiddenImages' = newHiddenImages
  /\ \E ok \in Outcomes :
       /\ Charge(ok)
       /\ stHid' = IF ok THEN StoredArray(newHiddenImages) ELSE stHid
       /\ tasks' = (tasks \ {c}) \cup
            {[c EXCEPT !.op = "addToHiddenImages", !.at = "written", !.ok = ok]}
  /\ lastOp' = Idle

\* promptForPasscode
PromptForPasscode ==
  /\ GridUsable /\ isSelectionMode /\ ~showPasscodePrompt
  /\ IF hasPasscode
       THEN /\ showPasscodePrompt' = TRUE
            /\ UNCHANGED <<hiddenImages, stHid, tasks, faults>>
            /\ lastOp' = Idle
       ELSE /\ CanStart
            /\ StartAddToHiddenImages(GridClosure("addToHiddenImages", "written"))
            /\ UNCHANGED showPasscodePrompt
  /\ UNCHANGED <<category, hasPermission, favorites, deletedItems, selectedItems,
                 isSelectionMode, photos, isLoading, loads>>
  /\ UNCHANGED <<stFav, stDel, stPass, stTheme>>
  /\ UNCHANGED <<hasPasscode, theme, isTabBarVisible>>
  /\ UNCHANGED <<viewer, settings, hidden>>

\* the prompt's Cancel button
CancelPasscodePrompt ==
  /\ GridUsable /\ showPasscodePrompt
  /\ showPasscodePrompt' = FALSE
  /\ UNCHANGED <<category, hasPermission, favorites, deletedItems, selectedItems,
                 isSelectionMode, photos, isLoading, loads>>
  /\ UNCHANGED <<stores, provider, viewer, settings, hidden, tasks, faults>>
  /\ lastOp' = Idle

\* handlePasscodeSubmit up to the read inside `await verifyPasscode(passcodeInput)`
HandlePasscodeSubmit(input) ==
  /\ GridUsable /\ showPasscodePrompt /\ CanStart
  /\ \E ok \in Outcomes :
       /\ Charge(ok)
       /\ tasks' = tasks \cup
            {[GridClosure("handlePasscodeSubmit", "verified")
                EXCEPT !.code = input, !.flag = VerifyPasscode(ok, stPass, input)]}
  /\ lastOp' = Idle
  /\ UNCHANGED <<stores, provider, grid, viewer, settings, hidden>>

\* after verifyPasscode: addToHiddenImages() when valid, else the error text
HandlePasscodeSubmitVerified(t) ==
  /\ t.op = "handlePasscodeSubmit" /\ t.at = "verified"
  /\ IF t.flag
       THEN StartAddToHiddenImages(t)
       ELSE /\ Finish(t)
            /\ lastOp' = Done("handlePasscodeSubmit", FALSE, t.code)
            /\ UNCHANGED <<hiddenImages, stHid, faults>>
  /\ UNCHANGED <<stFav, stDel, stPass, stTheme>>
  /\ UNCHANGED <<hasPasscode, theme, isTabBarVisible>>
  /\ UNCHANGED <<grid, viewer, settings, hidden>>

\* after `await addToHidden(selectedItems)`: exit selection mode, toast,
\* loadImages(), and the finally block closes the prompt
AddToHiddenImagesDone(t) ==
  /\ t.op = "addToHiddenImages" /\ t.at = "written"
  /\ ExitSelection(t)
  /\ ClosureLoad(t, TRUE)
  /\ showPasscodePrompt' = IF t.live THEN FALSE ELSE showPasscodePrompt
  /\ Finish(t)
  /\ lastOp' = Done("addToHiddenImages", t.ok, t.code)
  /\ UNCHANGED <<category, hasPermission, favorites, deletedItems, photos>>
  /\ UNCHANGED <<hiddenImages, hasPasscode, theme>>
  /\ UNCHANGED <<stores, viewer, settings, hidden, faults>>

(* ---------------------- HomeScreen: grid remount ----------------------- *)

\* handleImageUpdated bumps refreshGrid, the ImageGrid's key: the old instance
\* unmounts (its pending setState calls and loads no longer show; its pending
\* storage calls still run) and a new one mounts with fresh state.
RemountGrid(ts) ==
  /\ favorites' = <<>>
  /\ deletedItems' = <<>>
  /\ selectedItems' = <<>>
  /\ isSelectionMode' = FALSE
  /\ photos' = <<>>
  /\ isLoading' = TRUE
  /\ hasPermission' = FALSE
  /\ showPasscodePrompt' = FALSE
  /\ loads' = {}
  /\ isTabBarVisible' = TRUE
  /\ tasks' = {[t EXCEPT !.live = FALSE] : t \in {u \in ts : u.op # "gridMount"}}
                \cup {GridMountTask}
  /\ UNCHANGED category

(* ----------------------------- ImageViewer ----------------------------- *)

\* handleImagePress outside selection mode: the viewer opens on the asset.  Its
\* effect (deps [asset]) starts checkFavoriteStatus, which issues the favorites
\* read, when the asset object changed: always for another asset; for the asset
\* of the last visit only if the list was loaded anew in between, which the
\* model leaves open.
OpenViewer(a) ==
  /\ GridUsable /\ ~showPasscodePrompt /\ ~isSelectionMode /\ Includes(photos, a)
  /\ vAsset' = a
  /\ vVisible' = TRUE
  /\ \/ \E ok \in Outcomes :
          /\ Charge(ok)
          /\ tasks' = tasks \cup
               {WithRead([BaseTask EXCEPT !.op = "checkFavoriteStatus", !.at = "read",
                                          !.a = a], ok, stFav)}
     \/ /\ a = vAsset
        /\ UNCHANGED <<tasks, faults>>
  /\ UNCHANGED isFavorite
  /\ UNCHANGED <<stores, provider, grid, settings, hidden>>
  /\ lastOp' = Idle

\* handleImageViewerClose
CloseViewer ==
  /\ vVisible
  /\ vVisible' = FALSE
  /\ UNCHANGED <<vAsset, isFavorite>>
  /\ UNCHANGED <<stores, provider, grid, settings, hidden, tasks, faults>>
  /\ lastOp' = Idle

\* checkFavoriteStatus after its read; a rejected read leaves the flag as it is
CheckFavoriteStatusDone(t) ==
  /\ t.op = "checkFavoriteStatus" /\ t.at = "read"
  /\ isFavorite' = IF t.ok THEN t.has /\ Includes(t.val, t.a) ELSE isFavorite
  /\ Finish(t)
  /\ UNCHANGED <<vAsset, vVisible>>
  /\ UNCHANGED <<stores, provider, grid, settings, hidden, faults>>
  /\ lastOp' = Idle

\* A handler of the viewer: its closure holds the asset and the isFavorite flag.
ViewerClosure(name, at) ==
  [BaseTask EXCEPT !.tid = NewTid, !.op = name, !.at = at, !.a = vAsset,
                   !.flag = isFavorite]

\* toggleFavorite up to `await AsyncStorage.getItem(FAVORITES_STORAGE_KEY)`
ViewerToggleFavorite ==
  /\ vVisible /\ vAsset # NoAsset /\ CanStart /\ Settled
  /\ \E ok \in Outcomes :
       /\ Charge(ok)
       /\ tasks' = tasks \cup {WithRead(ViewerClosure("toggleFavorite", "read"), ok, stFav)}
  /\ lastOp' = Idle
  /\ UNCHANGED <<stores, provider, grid, viewer, settings, hidden>>

\* after the read: flip membership and the flag, issue the write
ViewerToggleFavoriteRead(t) ==
  /\ t.op = "toggleFavorite" /\ t.at = "read"
  /\ IF ~t.ok
       THEN /\ Finish(t)
            /\ lastOp' = Done("toggleFavorite", FALSE, t.a)
            /\ UNCHANGED <<isFavorite, stFav, faults>>
       ELSE /\ isFavorite' = ~Includes(t.val, t.a)
            /\ \E ok \in Outcomes :
                 /\ Charge(ok)
                 /\ stFav' = IF ok THEN StoredArray(ToggledFavorites(t.val, t.a))
                                   ELSE stFav
                 /\ Replace(t, [t EXCEPT !.at = "written", !.ok = ok])
            /\ lastOp' = Idle
  /\ UNCHANGED <<vAsset, vVisible>>
  /\ UNCHANGED <<stDel, stHid, stPass, stTheme>>
  /\ UNCHANGED <<provider, grid, settings, hidden>>

\* after the write: onImageUpdated()
ViewerToggleFavoriteDone(t) ==
  /\ t.op = "toggleFavorite" /\ t.at = "written"
  /\ IF t.ok
       THEN RemountGrid(tasks \ {t})
       ELSE /\ Finish(t)
            /\ UNCHANGED <<grid, isTabBarVisible>>
  /\ lastOp' = Done("toggleFavorite", t.ok, t.a)
  /\ UNCHANGED <<hiddenImages, hasPasscode, theme>>
  /\ UNCHANGED <<stores, viewer, settings, hidden, faults>>

(* ----------------------- ImageViewer: moveToDeleted -------------------- *)

\* moveToDeleted up to `await AsyncStorage.getItem(DELETED_STORAGE_KEY)`
ViewerMoveToDeleted ==
  /\ vVisible /\ vAsset # NoAsset /\ CanStart /\ Settled
  /\ \E ok \in Outcomes :
       /\ Charge(ok)
       /\ tasks' = tasks \cup {WithRead(ViewerClosure("moveToDeleted", "deletedRead"), ok, stDel)}
  /\ lastOp' = Idle
  /\ UNCHANGED <<stores, provider, grid, viewer, settings, hidden>>

\* `if (isFavorite)`: whether moveToDeleted goes on to rewrite the favorites,
\* decided by the flag its closure captured
RemovesFromFavorites(capturedIsFavorite) == capturedIsFavorite

\* in the catch block: nothing is notified, the viewer stays open
ViewerMoveFailed(t) ==
  /\ Finish(t)
  /\ lastOp' = Done("moveToDeleted", FALSE, t.a)
  /\ UNCHANGED <<grid, isTabBarVisible, vVisible>>

\* the end of the try block: onImageUpdated(); onClose()
ViewerMoveFinish(t) ==
  /\ RemountGrid(tasks \ {t})
  /\ vVisible' = FALSE
  /\ lastOp' = Done("moveToDeleted", TRUE, t.a)

\* from "If it was a favorite, remove from favorites" on
ViewerMoveFavoritesPart(t) ==
  IF RemovesFromFavorites(t.flag)
    THEN /\ \E ok \in Outcomes :
              /\ Charge(ok)
              /\ Replace(t, WithRead([t EXCEPT !.at = "favoritesRead"], ok, stFav))
         /\ UNCHANGED <<grid, isTabBarVisible, vVisible>>
         /\ lastOp' = Idle
    ELSE /\ ViewerMoveFinish(t)
         /\ UNCHANGED faults

\* after the deleted read: push and write when the asset is not there yet
ViewerMoveToDeletedRead(t) ==
  /\ t.op = "moveToDeleted" /\ t.at = "deletedRead"
  /\ IF ~t.ok
       THEN /\ ViewerMoveFailed(t)
            /\ UNCHANGED <<stDel, faults>>
       ELSE IF ~Includes(t.val, t.a)
         THEN /\ \E ok \in Outcomes :
                   /\ Charge(ok)
                   /\ stDel' = IF ok THEN StoredArray(Append(t.val, t.a)) ELSE stDel
                   /\ Replace(t, [t EXCEPT !.at = "deletedWritten", !.ok = ok])
              /\ UNCHANGED <<grid, isTabBarVisible, vVisible>>
              /\ lastOp' = Idle
         ELSE /\ ViewerMoveFavoritesPart(t)
              /\ UNCHANGED stDel
  /\ UNCHANGED <<vAsset, isFavorite>>
  /\ UNCHANGED <<stFav, stHid, stPass, stTheme>>
  /\ UNCHANGED <<hiddenImages, hasPasscode, theme>>
  /\ UNCHANGED <<settings, hidden>>

\* after the deleted write
ViewerMoveToDeletedWritten(t) ==
  /\ t.op = "moveToDeleted" /\ t.at = "deletedWritten"
  /\ IF ~t.ok
       THEN /\ ViewerMoveFailed(t)
            /\ UNCHANGED faults
       ELSE ViewerMoveFavoritesPart(t)
  /\ UNCHANGED <<vAsset, isFavorite>>
  /\ UNCHANGED <<hiddenImages, hasPasscode, theme>>
  /\ UNCHANGED <<stores, settings, hidden>>

\* after the favorites read: filter the asset out and write, when a value is stored
ViewerMoveToDeletedFavoritesRead(t) ==
  /\ t.op = "moveToDeleted" /\ t.at = "favoritesRead"
  /\ IF ~t.ok
       THEN /\ ViewerMoveFailed(t)
            /\ UNCHANGED <<stFav, faults>>
       ELSE IF t.has
         THEN /\ \E ok \in Outcomes :
                   /\ Charge(ok)
                   /\ stFav' = IF ok THEN StoredArray(Without(t.val, t.a)) ELSE stFav
                   /\ Replace(t, [t EXCEPT !.at = "favoritesWritten", !.ok = ok])
              /\ UNCHANGED <<grid, isTabBarVisible, vVisible>>
              /\ lastOp' = Idle
         ELSE /\ ViewerMoveFinish(t)
              /\ UNCHANGED <<stFav, faults>>
  /\ UNCHANGED <<vAsset, isFavorite>>
  /\ UNCHANGED <<stDel, stHid, stPass, stTheme>>
  /\ UNCHANGED <<hiddenImages, hasPasscode, theme>>
  /\ UNCHANGED <<settings, hidden>>

\* after the favorites write
ViewerMoveToDeletedDone(t) ==
  /\ t.op = "moveToDeleted" /\ t.at = "favoritesWritten"
  /\ IF t.ok THEN ViewerMoveFinish(t) ELSE ViewerMoveFailed(t)
  /\ UNCHANGED <<vAsset, isFavorite>>
  /\ UNCHANGED <<hiddenImages, hasPasscode, theme>>
  /\ UNCHANGED <<stores, settings, hidden, faults>>

(* ---------------------- UIStateProvider: passcode ---------------------- *)

\* A faulty variant of SetPasscodeStored: the write leaves the key as it was.
SetPasscodeDropped(ok, item, passcode) == item

\* setPasscode: what `await AsyncStorage.setItem(HIDDEN_PASSCODE_KEY, passcode)`
\* leaves under the key, and hasPasscode after the try block (a rejected write
\* jumps over setHasPasscode(true) into the catch)
SetPasscodeStored(ok, item, passcode) == IF ok THEN StoredString(passcode) ELSE item
SetPasscodeFlag(ok, has) == IF ok THEN TRUE ELSE has

\* resetPasscode: removeItem, then setHasPasscode(false) unless it rejected
ResetPasscodeStored(ok, item) == IF ok THEN NoString ELSE item
ResetPasscodeFlag(ok, has) == IF ok THEN FALSE ELSE has

(* ------------------------------ navigation ----------------------------- *)

\* Nothing the user started is still running and no dialog is open.
Quiet ==
  /\ Settled /\ tasks = {}
  /\ ~showPasscodePrompt /\ ~showPasscodeModal /\ ~isSelectionMode /\ ~vVisible

\* The user goes to the home tab or to the settings tab.
Navigate(s) ==
  /\ Quiet /\ s \in {"home", "settings"} /\ s # screen
  /\ screen' = s
  /\ lastOp' = Idle
  /\ UNCHANGED <<stores, provider, grid, viewer, settings, hidden, tasks, faults>>

(* ------------------- settings screen: the passcode modal --------------- *)

\* handlePasscodeSetting: the modal opens in the "set" form, or in the
\* "verify, then reset or change" form when hasPasscode
HandlePasscodeSetting ==
  /\ screen = "settings" /\ Quiet
  /\ isSettingPasscode' = ~hasPasscode
  /\ showPasscodeModal' = TRUE
  /\ lastOp' = Idle
  /\ UNCHANGED <<stores, provider, grid, viewer, hidden, screen, tasks, faults>>

\* the modal's Cancel button and onRequestClose
ClosePasscodeModal ==
  /\ screen = "settings" /\ showPasscodeModal /\ tasks = {}
  /\ showPasscodeModal' = FALSE
  /\ lastOp' = Idle
  /\ UNCHANGED <<isSettingPasscode, stores, provider, grid, viewer, hidden, screen,
                 tasks, faults>>

\* A handler of the settings screen.
SettingsTask(at) ==
  [BaseTask EXCEPT !.tid = NewTid, !.op = "settingsPasscodeSubmit", !.at = at]

\* handlePasscodeSubmit in the "set" form, up to the write inside
\* `await setPasscode(passcodeInput)`; the inputs are non-blank and equal
SettingsSubmitSet(c) ==
  /\ screen = "settings" /\ showPasscodeModal /\ isSettingPasscode /\ CanStart
  /\ \E ok \in Outcomes :
       /\ Charge(ok)
       /\ stPass' = SetPasscodeStored(ok, stPass, c)
       /\ tasks' = tasks \cup {[SettingsTask("setWritten") EXCEPT !.ok = ok, !.code = c]}
  /\ lastOp' = Idle
  /\ UNCHANGED <<stFav, stDel, stHid, stTheme>>
  /\ UNCHANGED <<provider, grid, viewer, settings, hidden, screen>>

\* handlePasscodeSubmit in the "verify" form, up to the read inside
\* `await verifyPasscode(currentPasscodeInput)`; new is the new passcode typed
\* ("" to remove the passcode)
SettingsSubmitVerify(current, new) ==
  /\ screen = "settings" /\ showPasscodeModal /\ ~isSettingPasscode /\ CanStart
  /\ \E ok \in Outcomes :
       /\ Charge(ok)
       /\ tasks' = tasks \cup
            {[SettingsTask("verified") EXCEPT !.code = new,
                                              !.flag = VerifyPasscode(ok, stPass, current)]}
  /\ lastOp' = Idle
  /\ UNCHANGED <<stores, provider, grid, viewer, settings, hidden, screen>>

\* after verifyPasscode: 'Invalid passcode', or on to `await resetPasscode()`
SettingsVerified(t) ==
  /\ t.op = "settingsPasscodeSubmit" /\ t.at = "verified"
  /\ IF ~t.flag
       THEN /\ Finish(t)
            /\ UNCHANGED <<stPass, faults>>
       ELSE \E ok \in Outcomes :
              /\ Charge(ok)
              /\ stPass' = ResetPasscodeStored(ok, stPass)
              /\ Replace(t, [t EXCEPT !.at = "resetWritten", !.ok = ok])
  /\ lastOp' = Idle
  /\ UNCHANGED <<stFav, stDel, stHid, stTheme>>
  /\ UNCHANGED <<provider, grid, viewer, settings, hidden, screen>>

\* resetPasscode after its removeItem; its promise resolves either way
SettingsResetDone(t) ==
  /\ t.op = "settingsPasscodeSubmit" /\ t.at = "resetWritten"
  /\ hasPasscode' = ResetPasscodeFlag(t.ok, hasPasscode)
  /\ Replace(t, [t EXCEPT !.at = "resetReturned"])
  /\ lastOp' = Done("resetPasscode", t.ok, "")
  /\ UNCHANGED <<hiddenImages, theme, isTabBarVisible>>
  /\ UNCHANGED <<stores, grid, viewer, settings, hidden, screen, faults>>

\* back in handlePasscodeSubmit: close and report the removal, or go on to the
\* write inside `await setPasscode(passcodeInput)`
SettingsResetReturned(t) ==
  /\ t.op = "settingsPasscodeSubmit" /\ t.at = "resetReturned"
  /\ IF t.code = ""
       THEN /\ showPasscodeModal' = FALSE
            /\ Finish(t)
            /\ UNCHANGED <<stPass, faults>>
       ELSE /\ \E ok \in Outcomes :
                 /\ Charge(ok)
                 /\ stPass' = SetPasscodeStored(ok, stPass, t.code)
                 /\ Replace(t, [t EXCEPT !.at = "setWritten", !.ok = ok])
            /\ UNCHANGED showPasscodeModal
  /\ lastOp' = Idle
  /\ UNCHANGED <<stFav, stDel, stHid, stTheme>>
  /\ UNCHANGED <<isSettingPasscode, provider, grid, viewer, hidden, screen>>

\* setPasscode after its setItem, then handlePasscodeSubmit closes the modal
\* and reports success
SettingsSetDone(t) ==
  /\ t.op = "settingsPasscodeSubmit" /\ t.at = "setWritten"
  /\ hasPasscode' = SetPasscodeFlag(t.ok, hasPasscode)
  /\ showPasscodeModal' = FALSE
  /\ Finish(t)
  /\ lastOp' = Done("setPasscode", t.ok, t.code)
  /\ UNCHANGED <<hiddenImages, theme, isTabBarVisible>>
  /\ UNCHANGED <<isSettingPasscode, stores, grid, viewer, hidden, screen, faults>>

(* ------------------------------ HiddenScreen --------------------------- *)

\* hidden.tsx holds two versions of the screen: the first redirects to the
\* settings when no passcode is set, the second shows a passcode creation form.
HiddenVariants == {"redirecting", "creating"}

\* the first version's effect: `if (!hasPasscode) router.replace(settings)`
RedirectsToSettings(variant, has) == variant = "redirecting" /\ ~has

\* A faulty variant of HiddenView: an instance with no passcode set shows the grid.
HiddenViewOpen(variant, unlocked, has) ==
  IF unlocked \/ ~has THEN "grid" ELSE "verification"

\* What the screen renders.
HiddenView(variant, unlocked, has) ==
  IF variant = "creating" /\ ~unlocked /\ ~has THEN "creation"
  ELSE IF ~unlocked THEN "verification"
  ELSE "grid"

\* The hidden-image grid (ImageGrid with category "hidden") is on screen.
HiddenGridShown ==
  /\ screen = "hidden" /\ hsMounted # "none"
  /\ HiddenView(hsMounted, isUnlocked, hasPasscode) = "grid"

\* The user opens the hidden screen.  The first visit mounts it (locked) and
\* runs its effects; later visits find it as it was left.
OpenHidden(variant) ==
  /\ Quiet /\ screen # "hidden"
  /\ variant \in HiddenVariants
  /\ IF hsMounted = "none"
       THEN /\ hsMounted' = variant
            /\ isUnlocked' = FALSE
            /\ screen' = IF RedirectsToSettings(variant, hasPasscode)
                           THEN "settings" ELSE "hidden"
       ELSE /\ variant = hsMounted
            /\ screen' = "hidden"
            /\ UNCHANGED <<hsMounted, isUnlocked>>
  /\ lastOp' = Idle
  /\ UNCHANGED <<stores, provider, grid, viewer, settings, tasks, faults>>

\* The hidden screen is popped (Cancel: router.back(), or the back gesture):
\* the instance unmounts, its running handlers keep running.
LeaveHidden ==
  /\ screen = "hidden" /\ hsMounted # "none"
  /\ hsMounted' = "none"
  /\ isUnlocked' = FALSE
  /\ screen' = "home"
  /\ tasks' = {[t EXCEPT !.live = FALSE] : t \in tasks}
  /\ lastOp' = Idle
  /\ UNCHANGED <<stores, provider, grid, viewer, settings, faults>>

\* A handler of the hidden screen.
HiddenTask(name, at) == [BaseTask EXCEPT !.tid = NewTid, !.op = name, !.at = at]

\* handleVerifyPasscode up to the read inside `await verifyPasscode(passcodeInput)`
HandleVerifyPasscode(input) ==
  /\ screen = "hidden" /\ Settled /\ CanStart
  /\ HiddenView(hsMounted, isUnlocked, hasPasscode) = "verification"
  /\ \E ok \in Outcomes :
       /\ Charge(ok)
       /\ tasks' = tasks \cup
            {[HiddenTask("handleVerifyPasscode", "verified")
                EXCEPT !.code = input, !.flag = VerifyPasscode(ok, stPass, input)]}
  /\ lastOp' = Idle
  /\ UNCHANGED <<stores, provider, grid, viewer, settings, hidden, screen>>

\* A faulty variant of StartsUnlock: the animation starts whatever verifyPasscode said.
StartsUnlockAnyway(isValid) == TRUE

\* `if (isValid)`: the unlock animation starts
StartsUnlock(isValid) == isValid

\* after verifyPasscode: start the unlock animation, or 'Invalid passcode'
HandleVerifyPasscodeVerified(t) ==
  /\ t.op = "handleVerifyPasscode" /\ t.at = "verified"
  /\ IF StartsUnlock(t.flag)
       THEN Replace(t, [t EXCEPT !.at = "unlocking"])
       ELSE Finish(t)
  /\ lastOp' = Done("verifyPasscode", t.flag, t.code)
  /\ UNCHANGED <<stores, provider, grid, viewer, settings, hidden, screen, faults>>

\* the animation's end callback: setIsUnlocked(true), which does nothing on an
\* instance that is gone
UnlockAnimationEnd(t) ==
  /\ t.op = "handleVerifyPasscode" /\ t.at = "unlocking"
  /\ isUnlocked' = IF t.live THEN TRUE ELSE isUnlocked
  /\ Finish(t)
  /\ lastOp' = Idle
  /\ UNCHANGED <<hsMounted, stores, provider, grid, viewer, settings, screen, faults>>

\* handleCreatePasscode (second version) up to the write inside
\* `await setPasscode(passcodeInput)`; the inputs are non-blank and equal
HandleCreatePasscode(c) ==
  /\ screen = "hidden" /\ Settled /\ CanStart
  /\ HiddenView(hsMounted, isUnlocked, hasPasscode) = "creation"
  /\ \E ok \in Outcomes :
       /\ Charge(ok)
       /\ stPass' = SetPasscodeStored(ok, stPass, c)
       /\ tasks' = tasks \cup
            {[HiddenTask("handleCreatePasscode", "setWritten") EXCEPT !.ok = ok, !.code = c]}
  /\ lastOp' = Idle
  /\ UNCHANGED <<stFav, stDel, stHid, stTheme>>
  /\ UNCHANGED <<provider, grid, viewer, settings, hidden, screen>>

\* setPasscode after its setItem; the form gives way to the verification form
HandleCreatePasscodeDone(t) ==
  /\ t.op = "handleCreatePasscode" /\ t.at = "setWritten"
  /\ hasPasscode' = SetPasscodeFlag(t.ok, hasPasscode)
  /\ Finish(t)
  /\ lastOp' = Done("setPasscode", t.ok, t.code)
  /\ UNCHANGED <<hiddenImages, theme, isTabBarVisible>>
  /\ UNCHANGED <<stores, grid, viewer, settings, hidden, screen, faults>>

(* --------------------------- process start ----------------------------- *)

\* The state right after the first render: every useState at its initial value,
\* the provider's load effect and the grid's mount effect started.
FreshMemory(ok) ==
  /\ hiddenImages = <<>> /\ hasPasscode = FALSE /\ theme = "dark"
  /\ isTabBarVisible = TRUE
  /\ category = "all" /\ hasPermission = FALSE /\ favorites = <<>>
  /\ deletedItems = <<>> /\ selectedItems = <<>> /\ isSelectionMode = FALSE
  /\ photos = <<>> /\ isLoading = TRUE /\ showPasscodePrompt = FALSE
  /\ loads = {}
  /\ vAsset = NoAsset /\ vVisible = FALSE /\ isFavorite = FALSE
  /\ showPasscodeModal = FALSE /\ isSettingPasscode = TRUE
  /\ hsMounted = "none" /\ isUnlocked = FALSE
  /\ screen = "home"
  /\ tasks = {ProviderLoadTask(ok),
              [BaseTask EXCEPT !.op = "gridMount", !.at = "permission", !.cat = "all"]}
  /\ lastOp = Idle
  /\ toggles = [x \in Ids |-> 0]
  /\ inFlight = 1

\* First launch: nothing is stored.
Init ==
  /\ stFav = NoArray /\ stDel = NoArray /\ stHid = NoArray
  /\ stPass = NoString /\ stTheme = NoString
  /\ \E ok \in BOOLEAN :
       /\ faults = IF ok THEN 0 ELSE 1
       /\ (ok \/ MaxFaults > 0)
       /\ FreshMemory(ok)

\* The user closes the app while it is idle and starts it again: memory is
\* lost, storage is kept.
Restart ==
  /\ Quiet
  /\ \E ok \in Outcomes :
       /\ Charge(ok)
       /\ tasks' = {ProviderLoadTask(ok),
                    [BaseTask EXCEPT !.op = "gridMount", !.at = "permission",
                                     !.cat = "all"]}
  /\ hiddenImages' = <<>> /\ hasPasscode' = FALSE /\ theme' = "dark"
  /\ isTabBarVisible' = TRUE
  /\ category' = "all" /\ hasPermission' = FALSE /\ favorites' = <<>>
  /\ deletedItems' = <<>> /\ selectedItems' = <<>> /\ isSelectionMode' = FALSE
  /\ photos' = <<>> /\ isLoading' = TRUE /\ showPasscodePrompt' = FALSE
  /\ loads' = {}
  /\ vAsset' = NoAsset /\ vVisible' = FALSE /\ isFavorite' = FALSE
  /\ showPasscodeModal' = FALSE /\ isSettingPasscode' = TRUE
  /\ hsMounted' = "none" /\ isUnlocked' = FALSE
  /\ screen' = "home"
  /\ lastOp' = Idle
  /\ UNCHANGED stores

(* ------------------- the collections: specification -------------------- *)

\* The steps of the home screen leave the screen in front as it is; the
\* observations inFlight and toggles change in no step but a counted one.
Frame == UNCHANGED <<toggles, inFlight, screen>>
GateFrame == UNCHANGED <<toggles, inFlight>>

\* Steps every run shares: the provider's load, the grid's mount and its
\* loadImages calls.
Background ==
  \/ \E t \in tasks : ProviderLoadHidden(t) /\ Frame
  \/ \E t \in tasks : ProviderLoadPasscode(t) /\ Frame
  \/ \E t \in tasks : ProviderLoadTheme(t) /\ Frame
  \/ \E t \in tasks : GridMountPermission(t) /\ Frame
  \/ \E t \in tasks : GridMountFavorites(t) /\ Frame
  \/ \E t \in tasks : GridMountDeleted(t) /\ Frame
  \/ \E l \in loads : LoadImagesDone(l) /\ Frame

\* Long press, press, Cancel: the selection.
Selection ==
  \/ \E a \in Ids : HandleLongPress(a) /\ Frame
  \/ \E a \in Ids : HandleImagePressSelect(a) /\ Frame
  \/ CancelSelection /\ Frame

\* The grid's multi-select operations on the three sets, with no passcode stored.
Next ==
  \/ Background
  \/ Selection
  \/ \E c \in HomeCategories : HandleCategoryChange(c) /\ Frame
  \/ AddMultipleToFavorites /\ Frame
  \/ \E t \in tasks : AddMultipleToFavoritesDone(t) /\ Frame
  \/ MoveMultipleToDeleted /\ Frame
  \/ \E t \in tasks : MoveMultipleToDeletedFavorites(t) /\ Frame
  \/ \E t \in tasks : MoveMultipleToDeletedDone(t) /\ Frame
  \/ PromptForPasscode /\ Frame
  \/ \E t \in tasks : AddToHiddenImagesDone(t) /\ Frame

Spec == Init /\ [][Next]_vars

\* The image viewer's operations on the favorites and deleted keys.
NextViewer ==
  \/ Background
  \/ \E c \in HomeCategories : HandleCategoryChange(c) /\ Frame
  \/ \E a \in Ids : OpenViewer(a) /\ Frame
  \/ CloseViewer /\ Frame
  \/ \E t \in tasks : CheckFavoriteStatusDone(t) /\ Frame
  \/ ViewerToggleFavorite /\ Frame
  \/ \E t \in tasks : ViewerToggleFavoriteRead(t) /\ Frame
  \/ \E t \in tasks : ViewerToggleFavoriteDone(t) /\ Frame
  \/ ViewerMoveToDeleted /\ Frame
  \/ \E t \in tasks : ViewerMoveToDeletedRead(t) /\ Frame
  \/ \E t \in tasks : ViewerMoveToDeletedWritten(t) /\ Frame
  \/ \E t \in tasks : ViewerMoveToDeletedFavoritesRead(t) /\ Frame
  \/ \E t \in tasks : ViewerMoveToDeletedDone(t) /\ Frame

SpecViewer == Init /\ [][NextViewer]_vars

(* ------------------------ the gate: specification --------------------- *)

\* The passcode and what it guards: the settings modal, the hidden screen, the
\* grid's 'Add to Hidden', across restarts of the app.
NextGate ==
  \/ Background
  \/ Selection
  \/ PromptForPasscode /\ Frame
  \/ CancelPasscodePrompt /\ Frame
  \/ \E c \in Codes : HandlePasscodeSubmit(c) /\ Frame
  \/ \E t \in tasks : HandlePasscodeSubmitVerified(t) /\ Frame
  \/ \E t \in tasks : AddToHiddenImagesDone(t) /\ Frame
  \/ \E s \in {"home", "settings"} : Navigate(s) /\ GateFrame
  \/ HandlePasscodeSetting /\ GateFrame
  \/ ClosePasscodeModal /\ GateFrame
  \/ \E c \in Codes : SettingsSubmitSet(c) /\ GateFrame
  \/ \E c \in Codes, n \in Codes \cup {""} : SettingsSubmitVerify(c, n) /\ GateFrame
  \/ \E t \in tasks : SettingsVerified(t) /\ GateFrame
  \/ \E t \in tasks : SettingsResetDone(t) /\ GateFrame
  \/ \E t \in tasks : SettingsResetReturned(t) /\ GateFrame
  \/ \E t \in tasks : SettingsSetDone(t) /\ GateFrame
  \/ \E v \in HiddenVariants : OpenHidden(v) /\ GateFrame
  \/ LeaveHidden /\ GateFrame
  \/ \E c \in Codes : HandleVerifyPasscode(c) /\ GateFrame
  \/ \E t \in tasks : HandleVerifyPasscodeVerified(t) /\ GateFrame
  \/ \E t \in tasks : UnlockAnimationEnd(t) /\ GateFrame
  \/ \E c \in Codes : HandleCreatePasscode(c) /\ GateFrame
  \/ \E t \in tasks : HandleCreatePasscodeDone(t) /\ GateFrame
  \/ Restart /\ GateFrame

SpecGate == Init /\ [][NextGate]_vars

(* --------------------- the deleted set: specification ----------------- *)

\* Every operation of the grid on the deleted set, one asset at a time or on
\* the selection, with addMultipleToFavorites filling the favorites; the array
\* markAsDeleted appends to is followed up to MaxDeleted entries.
NextDeleted ==
  \/ Background
  \/ Selection
  \/ \E c \in HomeCategories : HandleCategoryChange(c) /\ Frame
  \/ AddMultipleToFavorites /\ Frame
  \/ \E t \in tasks : AddMultipleToFavoritesDone(t) /\ Frame
  \/ MoveMultipleToDeleted /\ Frame
  \/ \E t \in tasks : MoveMultipleToDeletedFavorites(t) /\ Frame
  \/ \E t \in tasks : MoveMultipleToDeletedDone(t) /\ Frame
  \/ \E a \in Ids : Len(deletedItems) < MaxDeleted /\ MarkAsDeleted(a) /\ Frame
  \/ \E t \in tasks : MarkAsDeletedDone(t) /\ Frame
  \/ \E a \in Ids : RestoreFromDeleted(a) /\ Frame
  \/ \E t \in tasks : RestoreFromDeletedDone(t) /\ Frame

SpecDeleted == Init /\ [][NextDeleted]_vars

(* ---------------------- the hidden set: specification ----------------- *)

\* The provider's two functions on the hidden set, called by a consumer with
\* every identifier list up to MaxIds long, and the grid's toggleFavorite: the
\* single-set mutations that set the state before they write.
NextHidden ==
  \/ Background
  \/ \E a \in Ids : GridToggleFavorite(a) /\ Frame
  \/ \E t \in tasks : GridToggleFavoriteDone(t) /\ Frame
  \/ \E ids \in IdLists : AddToHidden(ids) /\ Frame
  \/ \E a \in Ids : RemoveFromHidden(a) /\ Frame
  \/ \E t \in tasks : HiddenWriteDone(t) /\ Frame

SpecHidden == Init /\ [][NextHidden]_vars

(* -------------------------- theme: specifications --------------------- *)

\* First launch on a device of any colour scheme: nothing is stored, the
\* provider starts from initialTheme, and RootLayoutNav's effect has issued its
\* read of the theme key.
InitTheme ==
  /\ stFav = NoArray /\ stDel = NoArray /\ stHid = NoArray
  /\ stPass = NoString /\ stTheme = NoString
  /\ \E ok \in BOOLEAN, rootOk \in BOOLEAN, native \in NativeColorSchemes :
       /\ faults = (IF ok THEN 0 ELSE 1) + (IF rootOk THEN 0 ELSE 1)
       /\ faults <= MaxFaults
       /\ hiddenImages = <<>> /\ hasPasscode = FALSE
       /\ theme = InitialColorScheme(native)
       /\ isTabBarVisible = TRUE
       /\ category = "all" /\ hasPermission = FALSE /\ favorites = <<>>
       /\ deletedItems = <<>> /\ selectedItems = <<>> /\ isSelectionMode = FALSE
       /\ photos = <<>> /\ isLoading = TRUE /\ showPasscodePrompt = FALSE
       /\ loads = {}
       /\ vAsset = NoAsset /\ vVisible = FALSE /\ isFavorite = FALSE
       /\ showPasscodeModal = FALSE /\ isSettingPasscode = TRUE
       /\ hsMounted = "none" /\ isUnlocked = FALSE
       /\ screen = "home"
       /\ tasks = {ProviderLoadTask(ok), RootThemeTask(rootOk),
                   [BaseTask EXCEPT !.op = "gridMount", !.at = "permission",
                                    !.cat = "all"]}
       /\ lastOp = Idle
       /\ toggles = [x \in Ids |-> 0]
       /\ inFlight = 1

\* Startup alone: the provider's load, the grid's mount and RootLayoutNav's
\* effect, in every order.
NextStartup ==
  \/ Background
  \/ \E t \in tasks : RootThemeRead(t) /\ Frame
  \/ \E t \in tasks : RootThemeWritten(t) /\ Frame

SpecStartup == InitTheme /\ [][NextStartup]_vars

\* toggleTheme called at any moment from the first render on.
NextTheme ==
  \/ Background
  \/ \E t \in tasks : RootThemeRead(t) /\ Frame
  \/ \E t \in tasks : RootThemeWritten(t) /\ Frame
  \/ ToggleTheme /\ Frame
  \/ \E t \in tasks : ToggleThemeDone(t) /\ Frame

SpecTheme == InitTheme /\ [][NextTheme]_vars

\* The switch of the settings screen, which the user opens once startup has
\* finished.
NextThemeSwitch ==
  \/ Background
  \/ \E t \in tasks : RootThemeRead(t) /\ Frame
  \/ \E t \in tasks : RootThemeWritten(t) /\ Frame
  \/ \E s \in {"home", "settings"} : Navigate(s) /\ GateFrame
  \/ HandleThemeToggle /\ Frame
  \/ \E t \in tasks : ToggleThemeDone(t) /\ Frame

SpecThemeSwitch == InitTheme /\ [][NextThemeSwitch]_vars

(* ------------------- a later launch: specifications -------------------- *)

\* A launch after a session that hid p1 and set the passcode 1234: the two keys
\* are stored, memory is fresh, the provider's load effect and the grid's mount
\* effect have started; n handlers may run at a time.
InitRelaunch(n) ==
  /\ stFav = NoArray /\ stDel = NoArray /\ stTheme = NoString
  /\ stHid = StoredArray(<<"p1">>)
  /\ stPass = StoredString("1234")
  /\ faults = 0
  /\ hiddenImages = <<>> /\ hasPasscode = FALSE /\ theme = "dark"
  /\ isTabBarVisible = TRUE
  /\ category = "all" /\ hasPermission = FALSE /\ favorites = <<>>
  /\ deletedItems = <<>> /\ selectedItems = <<>> /\ isSelectionMode = FALSE
  /\ photos = <<>> /\ isLoading = TRUE /\ showPasscodePrompt = FALSE
  /\ loads = {}
  /\ vAsset = NoAsset /\ vVisible = FALSE /\ isFavorite = FALSE
  /\ showPasscodeModal = FALSE /\ isSettingPasscode = TRUE
  /\ hsMounted = "none" /\ isUnlocked = FALSE
  /\ screen = "home"
  /\ tasks = {ProviderLoadTask(TRUE),
              [BaseTask EXCEPT !.op = "gridMount", !.at = "permission", !.cat = "all"]}
  /\ lastOp = Idle
  /\ toggles = [x \in Ids |-> 0]
  /\ inFlight = n

\* The user presses a tab while the effects of the launch may still be running.
NavigateAnytime(s) ==
  /\ s \in {"home", "settings"} /\ s # screen
  /\ UserTasks = {} /\ ~showPasscodeModal
  /\ screen' = s
  /\ lastOp' = Idle
  /\ UNCHANGED <<stores, provider, grid, viewer, settings, hidden, tasks, faults>>

\* handlePasscodeSetting pressed while the effects of the launch may still be
\* running: the form is chosen by the hasPasscode of the current render
HandlePasscodeSettingAnytime ==
  /\ screen = "settings" /\ ~showPasscodeModal /\ UserTasks = {}
  /\ isSettingPasscode' = ~hasPasscode
  /\ showPasscodeModal' = TRUE
  /\ lastOp' = Idle
  /\ UNCHANGED <<stores, provider, grid, viewer, hidden, screen, tasks, faults>>

\* the modal's Cancel button, while the effects of the launch may still be running
ClosePasscodeModalAnytime ==
  /\ screen = "settings" /\ showPasscodeModal /\ UserTasks = {}
  /\ showPasscodeModal' = FALSE
  /\ lastOp' = Idle
  /\ UNCHANGED <<isSettingPasscode, stores, provider, grid, viewer, hidden, screen,
                 tasks, faults>>

\* The settings' passcode modal from the first render of a later launch on.
NextRelaunchSettings ==
  \/ Background
  \/ \E s \in {"home", "settings"} : NavigateAnytime(s) /\ GateFrame
  \/ HandlePasscodeSettingAnytime /\ GateFrame
  \/ ClosePasscodeModalAnytime /\ GateFrame
  \/ \E c \in Codes : SettingsSubmitSet(c) /\ GateFrame
  \/ \E c \in Codes, n \in Codes \cup {""} : SettingsSubmitVerify(c, n) /\ GateFrame
  \/ \E t \in tasks : SettingsVerified(t) /\ GateFrame
  \/ \E t \in tasks : SettingsResetDone(t) /\ GateFrame
  \/ \E t \in tasks : SettingsResetReturned(t) /\ GateFrame
  \/ \E t \in tasks : SettingsSetDone(t) /\ GateFrame

SpecRelaunchSettings == InitRelaunch(1) /\ [][NextRelaunchSettings]_vars

\* addToHidden(imageIds) called from the provider's current render at any
\* moment from the first render on, up to its setItem
AddToHiddenAnytime(imageIds) ==
  /\ CanStart
  /\ LET newHiddenImages == AddToHiddenArray(hiddenImages, imageIds) IN
     /\ hiddenImages' = newHiddenImages
     /\ \E ok \in Outcomes :
          /\ Charge(ok)
          /\ stHid' = IF ok THEN StoredArray(newHiddenImages) ELSE stHid
          /\ tasks' = tasks \cup
               {[ProviderClosure("addToHidden", imageIds, NoAsset) EXCEPT !.ok = ok]}
  /\ lastOp' = Idle
  /\ UNCHANGED <<stFav, stDel, stPass, stTheme>>
  /\ UNCHANGED <<hasPasscode, theme, isTabBarVisible>>
  /\ UNCHANGED <<grid, viewer, settings, hidden>>

\* A second addToHidden(imageIds) call issued in the same tick as the call t,
\* before the provider has rendered again: the function is the one of the same
\* render, so its hiddenImages is the array t started from
AddToHiddenSameRender(t, imageIds) ==
  /\ t.op = "addToHidden" /\ t.at = "written" /\ CanStart
  /\ LET newHiddenImages == AddToHiddenArray(t.hid, imageIds) IN
     /\ hiddenImages' = newHiddenImages
     /\ \E ok \in Outcomes :
          /\ Charge(ok)
          /\ stHid' = IF ok THEN StoredArray(newHiddenImages) ELSE stHid
          /\ tasks' = tasks \cup
               {[ProviderClosure("addToHidden", imageIds, NoAsset)
                   EXCEPT !.ok = ok, !.hid = t.hid]}
  /\ lastOp' = Idle
  /\ UNCHANGED <<stFav, stDel, stPass, stTheme>>
  /\ UNCHANGED <<hasPasscode, theme, isTabBarVisible>>
  /\ UNCHANGED <<grid, viewer, settings, hidden>>

\* addToHidden called by a consumer from the first render of a later launch on,
\* with lists of distinct identifiers, up to two calls at a time.
NextRelaunchHidden ==
  \/ Background
  \/ \E ids \in NoDupLists : AddToHiddenAnytime(ids) /\ Frame
  \/ \E t \in tasks, ids \in NoDupLists : AddToHiddenSameRender(t, ids) /\ Frame
  \/ \E t \in tasks : HiddenWriteDone(t) /\ Frame

SpecRelaunchHidden == InitRelaunch(2) /\ [][NextRelaunchHidden]_vars

(* ------------------ the viewer and the grid: specification ------------- *)

\* The grid shows its list and takes presses: permission is granted, no
\* loadImages call holds isLoading and the viewer is closed; loadStoredData of
\* the mount effect may still be waiting for its reads.
GridShown ==
  /\ screen = "home"
  /\ hasPermission /\ ~isLoading /\ ~vVisible

\* handleLongPress on a grid that shows its list
HandleLongPressAnytime(a) ==
  /\ GridShown /\ UserTasks = {} /\ ~isSelectionMode /\ Includes(photos, a)
  /\ isSelectionMode' = TRUE
  /\ selectedItems' = <<a>>
  /\ isTabBarVisible' = TabBarEffect(TRUE)
  /\ UNCHANGED <<category, hasPermission, favorites, deletedItems, photos,
                 isLoading, showPasscodePrompt, loads>>
  /\ UNCHANGED <<hiddenImages, hasPasscode, theme>>
  /\ UNCHANGED <<stores, viewer, settings, hidden, tasks, faults>>
  /\ lastOp' = Idle

\* addMultipleToFavorites pressed on a grid that shows its list, up to its setItem
AddMultipleToFavoritesAnytime ==
  /\ GridShown /\ isSelectionMode /\ CanStart
  /\ LET newFavorites == PushMissing(favorites, selectedItems) IN
     /\ favorites' = newFavorites
     /\ isLoading' = TRUE
     /\ loads' = loads \cup {Load(category, newFavorites, deletedItems, hiddenImages)}
     /\ \E ok \in Outcomes :
          /\ Charge(ok)
          /\ stFav' = IF ok THEN StoredArray(newFavorites) ELSE stFav
          /\ tasks' = tasks \cup
               {[GridClosure("addMultipleToFavorites", "written") EXCEPT !.ok = ok]}
  /\ lastOp' = Idle
  /\ UNCHANGED <<category, hasPermission, deletedItems, selectedItems,
                 isSelectionMode, photos, showPasscodePrompt>>
  /\ UNCHANGED <<stDel, stHid, stPass, stTheme>>
  /\ UNCHANGED <<provider, viewer, settings, hidden>>

\* moveMultipleToDeleted pressed on a grid that shows its list, up to its first setItem
MoveMultipleToDeletedAnytime ==
  /\ GridShown /\ isSelectionMode /\ CanStart
  /\ LET newDeletedItems == PushMissing(deletedItems, selectedItems) IN
     /\ deletedItems' = newDeletedItems
     /\ isLoading' = TRUE
     /\ loads' = loads \cup {Load(category, favorites, newDeletedItems, hiddenImages)}
     /\ \E ok \in Outcomes :
          /\ Charge(ok)
          /\ stDel' = IF ok THEN StoredArray(newDeletedItems) ELSE stDel
          /\ tasks' = tasks \cup
               {[GridClosure("moveMultipleToDeleted", "deletedWritten") EXCEPT !.ok = ok]}
  /\ lastOp' = Idle
  /\ UNCHANGED <<category, hasPermission, favorites, selectedItems,
                 isSelectionMode, photos, showPasscodePrompt>>
  /\ UNCHANGED <<stFav, stHid, stPass, stTheme>>
  /\ UNCHANGED <<provider, viewer, settings, hidden>>

\* The viewer's toggleFavorite on p1 and the grid's multi-select operations on
\* p2, the grid taking presses as soon as it shows its list.
NextViewerGrid ==
  \/ Background
  \/ OpenViewer("p1") /\ Frame
  \/ CloseViewer /\ Frame
  \/ \E t \in tasks : CheckFavoriteStatusDone(t) /\ Frame
  \/ ViewerToggleFavorite /\ Frame
  \/ \E t \in tasks : ViewerToggleFavoriteRead(t) /\ Frame
  \/ \E t \in tasks : ViewerToggleFavoriteDone(t) /\ Frame
  \/ HandleLongPressAnytime("p2") /\ Frame
  \/ AddMultipleToFavoritesAnytime /\ Frame
  \/ \E t \in tasks : AddMultipleToFavoritesDone(t) /\ Frame
  \/ MoveMultipleToDeletedAnytime /\ Frame
  \/ \E t \in tasks : MoveMultipleToDeletedFavorites(t) /\ Frame
  \/ \E t \in tasks : MoveMultipleToDeletedDone(t) /\ Frame

SpecViewerGrid == Init /\ [][NextViewerGrid]_vars

(* ---------------------- every operation: specification ----------------- *)

\* The steps that resume a suspended handler or the viewer's effect: its
\* storage call has settled, by resolving or by rejecting.
Resume ==
  \/ \E t \in tasks : ToggleThemeDone(t) /\ Frame
  \/ \E t \in tasks : GridToggleFavoriteDone(t) /\ Frame
  \/ \E t \in tasks : AddMultipleToFavoritesDone(t) /\ Frame
  \/ \E t \in tasks : MoveMultipleToDeletedFavorites(t) /\ Frame
  \/ \E t \in tasks : MoveMultipleToDeletedDone(t) /\ Frame
  \/ \E t \in tasks : MarkAsDeletedDone(t) /\ Frame
  \/ \E t \in tasks : RestoreFromDeletedDone(t) /\ Frame
  \/ \E t \in tasks : HiddenWriteDone(t) /\ Frame
  \/ \E t \in tasks : CheckFavoriteStatusDone(t) /\ Frame
  \/ \E t \in tasks : ViewerToggleFavoriteRead(t) /\ Frame
  \/ \E t \in tasks : ViewerToggleFavoriteDone(t) /\ Frame
  \/ \E t \in tasks : ViewerMoveToDeletedRead(t) /\ Frame
  \/ \E t \in tasks : ViewerMoveToDeletedWritten(t) /\ Frame
  \/ \E t \in tasks : ViewerMoveToDeletedFavoritesRead(t) /\ Frame
  \/ \E t \in tasks : ViewerMoveToDeletedDone(t) /\ Frame
  \/ \E t \in tasks : SettingsVerified(t) /\ GateFrame
  \/ \E t \in tasks : SettingsResetDone(t) /\ GateFrame
  \/ \E t \in tasks : SettingsResetReturned(t) /\ GateFrame
  \/ \E t \in tasks : SettingsSetDone(t) /\ GateFrame

\* The operations of the provider, the grid, the viewer and the settings on
\* the five keys, applied to p1 with the passcode 1234, one handler at a time,
\* each storage call free to reject.
NextOperations ==
  \/ Background
  \/ Resume
  \/ HandleLongPress("p1") /\ Frame
  \/ ToggleTheme /\ Frame
  \/ GridToggleFavorite("p1") /\ Frame
  \/ AddMultipleToFavorites /\ Frame
  \/ MoveMultipleToDeleted /\ Frame
  \/ ~Includes(deletedItems, "p1") /\ MarkAsDeleted("p1") /\ Frame
  \/ RestoreFromDeleted("p1") /\ Frame
  \/ AddToHidden(<<"p1">>) /\ Frame
  \/ RemoveFromHidden("p1") /\ Frame
  \/ OpenViewer("p1") /\ Frame
  \/ CloseViewer /\ Frame
  \/ ViewerToggleFavorite /\ Frame
  \/ ViewerMoveToDeleted /\ Frame
  \/ \E s \in {"home", "settings"} : Navigate(s) /\ GateFrame
  \/ HandlePasscodeSetting /\ GateFrame
  \/ ClosePasscodeModal /\ GateFrame
  \/ SettingsSubmitSet("1234") /\ GateFrame
  \/ \E n \in {"1234", ""} : SettingsSubmitVerify("1234", n) /\ GateFrame

SpecOperations == Init /\ [][NextOperations]_vars

(* ----------------------- toggleFavorite: specification ----------------- *)

\* First launch with a persistence layer that never rejects.
InitToggle ==
  /\ stFav = NoArray /\ stDel = NoArray /\ stHid = NoArray
  /\ stPass = NoString /\ stTheme = NoString
  /\ faults = MaxFaults
  /\ FreshMemory(TRUE)

\* A toggleFavorite call for t.a has reached the end of its try block.
Counted(t) ==
  /\ toggles' = [toggles EXCEPT ![t.a] = @ + 1]
  /\ UNCHANGED <<inFlight, screen>>

\* Sequential toggleFavorite calls, from the viewer and from the grid, at most
\* MaxToggles per asset.
NextToggle ==
  \/ Background
  \/ \E c \in HomeCategories : HandleCategoryChange(c) /\ Frame
  \/ \E a \in Ids : OpenViewer(a) /\ Frame
  \/ CloseViewer /\ Frame
  \/ \E t \in tasks : CheckFavoriteStatusDone(t) /\ Frame
  \/ vAsset # NoAsset /\ toggles[vAsset] < MaxToggles /\ ViewerToggleFavorite /\ Frame
  \/ \E t \in tasks : ViewerToggleFavoriteRead(t) /\ Frame
  \/ \E t \in tasks : ViewerToggleFavoriteDone(t) /\ Counted(t)
  \/ \E a \in Ids : toggles[a] < MaxToggles /\ GridToggleFavorite(a) /\ Frame
  \/ \E t \in tasks : GridToggleFavoriteDone(t) /\ Counted(t)

SpecToggle == InitToggle /\ [][NextToggle]_vars

(* ------------------------------- claims -------------------------------- *)

\* C1: once moveToDeleted(a) has run to the end of its try block, a is in the
\* persisted Deleted array and not in the persisted Favorites array, whatever
\* the viewer's isFavorite flag held when the handler started.
C1_MovedAssetLeavesFavorites ==
  (lastOp.op = "moveToDeleted" /\ lastOp.ok) =>
    /\ Includes(ParseOrEmpty(stDel), lastOp.arg)
    /\ ~Includes(ParseOrEmpty(stFav), lastOp.arg)

\* The list on screen: the spinner replaces it while a loadImages call runs.
Displayed == IF isLoading THEN <<>> ELSE photos

\* C3: when the grid shows the list its filter computes from the current sets
\* in the category all, favorites or deleted, no hidden asset is in it.
C3_HiddenNeverDisplayed ==
  (/\ category \in HomeCategories
   /\ ~isLoading
   /\ photos = FilterAssets(category, Assets, favorites, deletedItems, hiddenImages))
    => Members(Displayed) \cap Members(hiddenImages) = {}

\* C9: a moveMultipleToDeleted call that runs to the end of its try block leaves
\* Deleted = old Deleted \cup ids and Favorites = old Favorites \ ids, in the
\* grid's state and, for each array it wrote, under its key; on Favorites
\* [p1, p2] and ids [p2, p3] that is Favorites [p1] and Deleted [p2, p3].
C9_MoveManyToDeleted ==
  [][\A t \in tasks :
       (/\ t.op = "moveMultipleToDeleted"
        /\ t \notin tasks'
        /\ lastOp' = Done("moveMultipleToDeleted", TRUE, ""))
         => /\ Members(deletedItems') = Members(t.del) \cup Members(t.sel)
            /\ Members(favorites') = Members(t.fav) \ Members(t.sel)
            /\ stDel' = StoredArray(deletedItems')
            /\ AnyIncluded(t.fav, t.sel) => stFav' = StoredArray(favorites')
            /\ RemoveEach(<<"p1", "p2">>, <<"p2", "p3">>) = <<"p1">>
            /\ PushMissing(<<>>, <<"p2", "p3">>) = <<"p2", "p3">>]_vars

\* C9's case: p1 of the favorites [p1, p2] was selected and moved; both arrays
\* are rewritten and the handler is about to leave selection mode.
C9_Witness ==
  \E t \in tasks :
    /\ t.op = "moveMultipleToDeleted" /\ t.at = "favoritesWritten" /\ t.ok
    /\ t.fav = <<"p1", "p2">> /\ t.sel = <<"p1">>
    /\ favorites = <<"p2">> /\ deletedItems = <<"p1">>
    /\ stFav = StoredArray(<<"p2">>) /\ stDel = StoredArray(<<"p1">>)

\* C10: when a moveMultipleToDeleted call has finished, by the end of its try
\* block or in its catch, none of the identifiers it was given is in the
\* persisted Deleted array while still in the persisted Favorites array.
C10_NeverDeletedAndFavorite ==
  [][\A t \in tasks :
       (/\ t.op = "moveMultipleToDeleted"
        /\ t \notin tasks'
        /\ lastOp'.op = "moveMultipleToDeleted")
         => \A x \in Members(t.sel) :
              ~(Includes(ParseOrEmpty(stDel'), x) /\ Includes(ParseOrEmpty(stFav'), x))]_vars

\* C2: with a passcode stored, the hidden grid comes on screen only in the
\* step that ends the unlock animation of a handleVerifyPasscode call of the
\* mounted screen whose verifyPasscode returned true; to an instance showing
\* another form, the grid never appears by navigation, by a failed
\* verification or by a restart.
C2_GridOnlyAfterVerification ==
  [][(HiddenGridShown' /\ stPass'.has /\ ~(hsMounted # "none" /\ isUnlocked))
       => \E t \in tasks :
            /\ t.op = "handleVerifyPasscode" /\ t.at = "unlocking" /\ t.flag
            /\ t.live /\ t \notin tasks'
            /\ hsMounted' = hsMounted]_vars

\* C2's case: a passcode is stored, the user typed it on the hidden screen,
\* and the grid is shown.
C2_Witness ==
  /\ HiddenGridShown /\ stPass.has
  /\ tasks = {}

\* No setPasscode or resetPasscode call is between its write and its return.
NoPasscodeWritePending ==
  \A t \in tasks : t.at \notin {"setWritten", "resetWritten"}

\* C4: in every state in which no setPasscode / resetPasscode call is running
\* (the load window after a start and the states after a failed write
\* included), hasPasscode is true iff a passcode is stored under the key.
C4_HasPasscodeIffStored ==
  NoPasscodeWritePending => (hasPasscode <=> Truthy(stPass))

\* C5: pressing 'Add to Hidden' with no passcode stored calls addToHidden at
\* once, and with a passcode stored addToHidden is only called by a
\* handlePasscodeSubmit whose verifyPasscode returned true for the code typed.
C5_AddToHiddenGated ==
  [][/\ (PromptForPasscode /\ ~stPass.has)
          => (~showPasscodePrompt' /\ \E t \in tasks' : t.op = "addToHiddenImages")
     /\ ((\E t \in tasks' \ tasks : t.op = "addToHiddenImages") /\ stPass.has)
          => \E u \in tasks :
               /\ u.op = "handlePasscodeSubmit" /\ u.flag /\ u.code = stPass.code
               /\ u \notin tasks']_vars

\* C6: when setPasscode(c) has run to the end of its try block, verifyPasscode(x)
\* is true exactly for x = c; when resetPasscode has, hasPasscode is false and
\* verifyPasscode(x) is false for every x.
C6_PasscodeRoundTrip ==
  /\ (lastOp.op = "setPasscode" /\ lastOp.ok)
       => /\ hasPasscode
          /\ \A x \in Codes \cup {""} :
               VerifyPasscode(TRUE, stPass, x) <=> (x = lastOp.arg)
  /\ (lastOp.op = "resetPasscode" /\ lastOp.ok)
       => /\ ~hasPasscode
          /\ \A x \in Codes \cup {""} : ~VerifyPasscode(TRUE, stPass, x)

\* C6's case: the passcode 1234 was changed to 0000 in the settings (verify,
\* reset, set) and the last setPasscode has just returned.
C6_Witness ==
  /\ lastOp = Done("setPasscode", TRUE, "0000")
  /\ stPass = StoredString("0000")
  /\ ~isSettingPasscode

C8_ToggleParity ==
  (\A t \in tasks : t.op \notin {"toggleFavorite", "gridToggleFavorite"}) =>
    \A x \in Ids :
      /\ Includes(ParseOrEmpty(stFav), x) <=> (toggles[x] % 2 = 1)
      /\ GridUsable => (Includes(favorites, x) <=> (toggles[x] % 2 = 1))

\* C8's case: three calls for p1 and two for p2 have completed; p1 is a
\* favorite, p2 is not.
C8_Witness ==
  /\ toggles["p1"] = 3 /\ toggles["p2"] = 2
  /\ tasks = {} /\ GridUsable
  /\ stFav = StoredArray(<<"p1">>) /\ favorites = <<"p1">>

\* C11: restoreFromDeleted(a) takes a out of the Deleted array, in the grid's
\* state and, when the write succeeds, under the deleted key, keeps the other
\* entries of Deleted in their order, and leaves Favorites and Hidden, in
\* memory and persisted, identical before and after each of its two steps.
C11_RestoreTouchesOnlyDeleted ==
  [][/\ \A t \in tasks' \ tasks :
          t.op = "restoreFromDeleted" =>
            /\ ~Includes(deletedItems', t.a)
            /\ deletedItems' = SelectSeq(deletedItems, LAMBDA x : x # t.a)
            /\ t.ok => stDel' = StoredArray(deletedItems')
            /\ UNCHANGED <<favorites, stFav, hiddenImages, stHid>>
     /\ \A t \in tasks \ tasks' :
          t.op = "restoreFromDeleted" =>
            UNCHANGED <<favorites, deletedItems, hiddenImages, stores>>]_vars

\* C11's case: with p1 a favorite and p1, p2 deleted, restoreFromDeleted(p1)
\* has finished: p2 is still deleted and p1 is still a favorite.
C11_Witness ==
  /\ lastOp = Done("restoreFromDeleted", TRUE, "p1")
  /\ deletedItems = <<"p2">> /\ stDel = StoredArray(<<"p2">>)
  /\ favorites = <<"p1">> /\ stFav = StoredArray(<<"p1">>)

\* the forEach loop of addMultipleToFavorites, applied to every array without
\* duplicates and every identifier list up to MaxIds long
PushMissingIsUnion ==
  \A acc \in NoDupLists, ids \in IdLists :
    /\ NoDup(PushMissing(acc, ids))
    /\ Members(PushMissing(acc, ids)) = Members(acc) \cup Members(ids)

\* C12: the step of addMultipleToFavorites that builds the new array leaves,
\* from Favorites without duplicates, Favorites without duplicates whose
\* members are the old ones and the selected ids, and persists that array when
\* the write succeeds; its forEach loop does so for every array without
\* duplicates and every list of ids up to MaxIds long, repeated and already
\* favourited ids included.
C12_AddManyNoDuplicates ==
  [][\A t \in tasks' \ tasks :
       t.op = "addMultipleToFavorites" =>
         /\ NoDup(favorites) =>
              /\ NoDup(favorites')
              /\ Members(favorites') = Members(favorites) \cup Members(t.sel)
              /\ t.ok => stFav' = StoredArray(favorites')
         /\ PushMissingIsUnion]_vars

\* C12's case: with p1 a favorite, p1 and p2 were selected and added; the
\* array is written and the handler is about to leave selection mode.
C12_Witness ==
  \E t \in tasks :
    /\ t.op = "addMultipleToFavorites" /\ t.at = "written" /\ t.ok
    /\ t.fav = <<"p1">> /\ t.sel = <<"p1", "p2">>
    /\ favorites = <<"p1", "p2">> /\ stFav = StoredArray(<<"p1", "p2">>)

\* C13: the count the success toast of addMultipleToFavorites reports equals
\* the number of ids the call added, the selected ids that were not in
\* Favorites when it started.
C13_ReportedCountIsAdded ==
  [][\A t \in tasks \ tasks' :
       (/\ t.op = "addMultipleToFavorites"
        /\ lastOp'.op = "addMultipleToFavorites" /\ lastOp'.ok)
         => lastOp'.count = Cardinality({x \in Members(t.sel) : ~Includes(t.fav, x)})]_vars

\* C14: no identifier is twice in the Deleted array, in the grid's state or
\* under the deleted key, after any sequence of markAsDeleted,
\* moveMultipleToDeleted and restoreFromDeleted calls.
C14_DeletedNoDuplicates ==
  NoDup(deletedItems) /\ NoDup(ParseOrEmpty(stDel))

\* C15: addToHidden(ids) leaves Hidden, from an array without duplicates, the
\* union of the old array and ids with each identifier exactly once, for every
\* ids, a list that repeats an identifier included; removeFromHidden(a) takes
\* a out and leaves every other identifier in its place.
C15_HiddenIsASet ==
  [][\A t \in tasks' \ tasks :
       /\ t.op = "addToHidden" =>
            (NoDup(hiddenImages) =>
               /\ NoDup(hiddenImages')
               /\ Members(hiddenImages') = Members(hiddenImages) \cup Members(t.sel))
       /\ t.op = "removeFromHidden" =>
            /\ ~Includes(hiddenImages', t.a)
            /\ hiddenImages' = SelectSeq(hiddenImages, LAMBDA x : x # t.a)]_vars

\* out is made of entries of inp, taken in the order they have in inp
IsSubsequence(out, inp) ==
  \E f \in [1..Len(out) -> 1..Len(inp)] :
    /\ \A i \in 1..Len(out) : out[i] = inp[f[i]]
    /\ \A i, j \in 1..Len(out) : i < j => f[i] < f[j]

\* the categories whose filter tests membership in one of the three sets
SetCategories == {"all", "favorites", "deleted", "hidden"}

\* what the category keeps of the library
Kept(cat, x, fav, del, hid) ==
  IF cat = "all" THEN ~Includes(del, x) /\ ~Includes(hid, x)
  ELSE IF cat = "favorites" THEN Includes(fav, x)
  ELSE IF cat = "deleted" THEN Includes(del, x)
  ELSE Includes(hid, x)

\* the filter, applied to every category and every three arrays over Ids, and
\* to the library p1..p5 with Deleted [p3] and Hidden [p4]
FilterKeepsInOrder ==
  /\ \A cat \in SetCategories, fav \in NoDupLists, del \in NoDupLists, hid \in NoDupLists :
       LET out == FilterAssets(cat, Assets, fav, del, hid) IN
       /\ IsSubsequence(out, Assets)
       /\ Members(out) = {x \in Members(Assets) : Kept(cat, x, fav, del, hid)}
  /\ FilterAssets("all", <<"p1", "p2", "p3", "p4", "p5">>, <<>>, <<"p3">>, <<"p4">>)
       = <<"p1", "p2", "p5">>

\* C16: for each of the categories all, favorites, deleted and hidden and all
\* Favorites, Deleted and Hidden arrays, the list loadImages' filter computes is
\* an order-preserving subsequence of the library holding exactly the assets
\* the category keeps (all: neither deleted nor hidden; favorites, deleted,
\* hidden: in that set); over p1..p5 with Deleted [p3] and Hidden [p4] the
\* category all gives [p1, p2, p5]; every list a loadImages call of the grid
\* holds or has set is such a subsequence.
C16_FilterIsOrderedSubsequence ==
  /\ FilterKeepsInOrder
  /\ IsSubsequence(photos, Assets)
  /\ \A l \in loads : IsSubsequence(l, Assets)

\* C16's case: in the category all with p1 deleted, the grid shows the list a
\* loadImages call filtered: p2 alone.
C16_Witness ==
  /\ category = "all" /\ ~isLoading /\ loads = {}
  /\ deletedItems = <<"p1">> /\ hiddenImages = <<>>
  /\ photos = <<"p2">>

\* C17: every verifyPasscode call resolves with a boolean, and its caller goes
\* on after the await: the value is false when the read is rejected, when no
\* passcode is stored and when the stored passcode differs from the input, and
\* true only when a passcode is stored and equals the input.
C17_VerifyNeverThrows ==
  [][\A t \in tasks' \ tasks :
       (t.at = "verified" /\ \A u \in tasks : u.tid # t.tid) =>
         /\ t.flag \in BOOLEAN
         /\ faults' # faults => ~t.flag
         /\ ~stPass.has => ~t.flag
         /\ t.op \in {"handleVerifyPasscode", "handlePasscodeSubmit"} =>
              (t.flag <=> (faults' = faults /\ stPass.has /\ stPass.code = t.code))]_vars

\* C17's case: the hidden screen's verifyPasscode call was given the stored
\* passcode and its read was rejected: it resolved with false.
C17_Witness ==
  \E t \in tasks :
    /\ t.op = "handleVerifyPasscode" /\ t.at = "verified" /\ ~t.flag
    /\ stPass.has /\ stPass.code = t.code

\* C18: when the write of setPasscode or the removal of resetPasscode is
\* rejected, the settings screen's handlePasscodeSubmit does not end by closing
\* the passcode modal and reporting success.
C18_FailureReachesCaller ==
  [][\A t \in tasks :
       (/\ t.op = "settingsPasscodeSubmit"
        /\ t.at \in {"resetReturned", "setWritten"}
        /\ ~t.ok
        /\ \A u \in tasks' : u.tid # t.tid)
         => (showPasscodeModal => showPasscodeModal')]_vars

C22_ToggleThemeFlips ==
  /\ theme \in ColorSchemes
  /\ (lastOp.op = "toggleTheme" /\ lastOp.ok) =>
       /\ theme # lastOp.arg
       /\ stTheme = [has |-> TRUE, code |-> theme]
  /\ \A x \in ColorSchemes : FlippedTheme(FlippedTheme(x)) = x

\* C22's case: a toggleTheme call that started from light has ended: the theme
\* is dark, in memory and under the key.
C22_Witness ==
  /\ lastOp = Done("toggleTheme", TRUE, "light")
  /\ theme = "dark" /\ stTheme = StoredString("dark")
  /\ screen = "settings"

\* C23: with no theme preference stored at process start, the theme is dark
\* once the provider's load has finished with no storage call rejected,
\* whatever the device's colour scheme and however the provider's reads and
\* RootLayoutNav's default-writing effect interleave.
C23_DefaultsToDark ==
  ((\A t \in tasks : t.op # "providerLoad") /\ faults = 0) => theme = "dark"

\* C30: once the provider's load, RootLayoutNav's effect and every toggleTheme
\* call have ended, with no storage call rejected, the theme in memory is the
\* stored theme preference.
C30_ThemeMatchesStorage ==
  ((\A t \in tasks : t.op \notin {"providerLoad", "rootTheme", "toggleTheme"}) /\ faults = 0)
    => stTheme = StoredString(theme)

\* C24: every step that changes the value stored under the favorites, deleted,
\* hidden, passcode or theme key is a step of a handler that writes through a
\* function of the provider (addToHidden, removeFromHidden, toggleTheme,
\* setPasscode, resetPasscode); the viewer, the grid and the root layout write
\* no key themselves.
C24_OneWriterPath ==
  [][LET WritesThroughProvider(op) ==
          op \in {"addToHidden", "removeFromHidden", "toggleTheme", "addToHiddenImages",
                  "handlePasscodeSubmit", "settingsPasscodeSubmit", "handleCreatePasscode"}
     IN stores' # stores => \E t \in tasks' \ tasks : WritesThroughProvider(t.op)]_vars


C26_SetOnlyAfterVerify ==
  [][LET StartsUnverifiedSet(t) ==
          /\ t.op \in {"settingsPasscodeSubmit", "handleCreatePasscode"}
          /\ t.at = "setWritten"
     IN stPass.has =>
          \A t \in tasks' \ tasks :
            (\A u \in tasks : u.tid # t.tid) => ~StartsUnverifiedSet(t)]_vars


\* C27: an addToHidden call whose write succeeds leaves every identifier that
\* was stored under the hidden key before the call stored after it, whenever
\* the call is issued (before the provider's load of the key has completed, or
\* second of two calls of one render).
C27_AddToHiddenKeepsStored ==
  [][(\E t \in tasks' \ tasks : t.op = "addToHidden" /\ t.ok
                                 /\ \A u \in tasks : u.tid # t.tid)
       => \A x \in Ids : Includes(stHid.val, x) => Includes(stHid'.val, x)]_vars


\* C28: p1, which only the viewer's toggleFavorite stores, is still stored under
\* the favorites key after every write of a grid operation on p2
\* (addMultipleToFavorites, moveMultipleToDeleted), in every interleaving of the
\* viewer's write, the grid's remount and loadStoredData, and the grid's write.
C28_ViewerFavoriteKept ==
  [][LET GridWritesFavorites ==
          /\ stFav' # stFav
          /\ \E t \in tasks' \ tasks :
               t.op \in {"addMultipleToFavorites", "moveMultipleToDeleted"}
     IN (GridWritesFavorites /\ Includes(stFav.val, "p1"))
          => Includes(stFav'.val, "p1")]_vars


\* C29: once the grid's handlers have finished and every loadImages call has
\* returned, in whatever order, the list shown under the category 'all' holds
\* no identifier of the current hidden images or deleted items.
C29_GridCatchesUp ==
  (Settled /\ tasks = {} /\ hasPermission /\ category = "all") =>
    \A x \in Ids :
      Includes(photos, x) => ~Includes(hiddenImages, x) /\ ~Includes(deletedItems, x)


\* The continuation of the suspended call t, whichever effect or handler it
\* belongs to and whether its storage call resolved or rejected.
Continuation(t) ==
  \/ ProviderLoadHidden(t) \/ ProviderLoadPasscode(t) \/ ProviderLoadTheme(t)
  \/ GridMountPermission(t) \/ GridMountFavorites(t) \/ GridMountDeleted(t)
  \/ CheckFavoriteStatusDone(t)
  \/ ToggleThemeDone(t)
  \/ GridToggleFavoriteDone(t)
  \/ AddMultipleToFavoritesDone(t)
  \/ MoveMultipleToDeletedFavorites(t) \/ MoveMultipleToDeletedDone(t)
  \/ MarkAsDeletedDone(t) \/ RestoreFromDeletedDone(t)
  \/ HiddenWriteDone(t)
  \/ ViewerToggleFavoriteRead(t) \/ ViewerToggleFavoriteDone(t)
  \/ ViewerMoveToDeletedRead(t) \/ ViewerMoveToDeletedWritten(t)
  \/ ViewerMoveToDeletedFavoritesRead(t) \/ ViewerMoveToDeletedDone(t)
  \/ SettingsVerified(t) \/ SettingsResetDone(t) \/ SettingsResetReturned(t)
  \/ SettingsSetDone(t)

\* C21: no rejected storage call leaves an effect or a handler without a
\* continuation: every suspended call of the initial load, toggleFavorite,
\* addMultipleToFavorites, the moves to deleted, restoreFromDeleted, addToHidden,
\* removeFromHidden, toggleTheme and set/reset/verifyPasscode is resumed, inside
\* its try block or in its catch (a stored value that JSON.parse rejects throws
\* inside the same try block as a rejected read), and every loadImages call returns.
C21_EveryCallResumes ==
  /\ \A t \in tasks : ENABLED (Continuation(t) /\ Frame)
  /\ \A l \in loads : ENABLED (LoadImagesDone(l) /\ Frame)

C21_Witness == lastOp.op # "none" /\ ~lastOp.ok /\ tasks = {} /\ faults > 0

====
